---- MODULE Spec2Model ----
(***************************************************************************)
(* Dual-path mesh transport core of Nucleus_V1.                            *)
(*                                                                         *)
(* Part 1  Path Controller: EnhancedOGMMonitor.update_node_status          *)
(*         (ogm_monitor/enhanced_ogm_monitor.py) and its predecessor       *)
(*         MeshController.update (mesh_controller/mesh_controller.py).     *)
(* Part 2  ATAKHandler: compression, duplicate suppression and the         *)
(*         spool directories (tak_transmission/atak_module).               *)
(* Part 3  PacketManager: the delivery ledger, send spacing, proofs and    *)
(*         timeouts (reticulum_module/new_implementation).                 *)
(* Part 4  ReticulumHandler: the retry queue, buffer reference counts and  *)
(*         the retry thread (reticulum_module/reticulum_handler.py).       *)
(* Part 5  The ATAK handler and the PacketManager as two processes under   *)
(*         one path state: purge, staging, send order and drain.           *)
(* Part 6  PeerDiscovery: peer records, announces, stale-peer clean-up     *)
(*         (reticulum_module/new_implementation/peer_discovery.py).        *)
(* Part 7  The callers of ATAKHandler.is_duplicate.                        *)
(* Part 8  The receiving half of ATAKHandler.run.                          *)
(* Part 9  The per-mode transition table of the specification, run beside  *)
(*         the Path Controller.                                            *)
(* Part 10 Ingress: overlay arrivals written to incoming/ and the pass     *)
(*         that puts them on the bus.                                      *)
(*                                                                         *)
(* Each part has its own specification (SpecPath, SpecAtak, SpecPM,        *)
(* SpecRH; SpecPurge, SpecStage, SpecFifo and SpecDrain for Part 5;        *)
(* SpecPD, SpecDedup, SpecRx, SpecTable, SpecIngress) over the shared      *)
(* variables; the                                                          *)
(* other parts stand still.                                                *)
(*                                                                         *)
(* Times are integers.  The Path Controller's last_seen readings are in    *)
(* tenths of a second (3.0 s = 30).                                        *)
(***************************************************************************)
EXTENDS Integers, Sequences, FiniteSets, TLC

\* The remote nodes (one MAC address / hostname each).
Hosts == {"A", "B"}

\* A Python dict is a function whose DOMAIN is its set of keys.
EmptyDict == [k \in {} |-> 0]

(***************************************************************************)
(* Part 1.  Path Controller                                                *)
(***************************************************************************)

\* enhanced_ogm_monitor.py:11-13 and mesh_controller.py:10-12 (same values).
FAILURE_THRESHOLD == 30
FAILURE_COUNT == 3
RECOVERY_COUNT == 10

\* Cap of the hysteresis counters in the guards of the tick actions (the
\* code's counters grow without bound while a remote keeps failing).
MaxCount == 12

\* last_seen readings of the link-state feed: 0.5 s, 3.0 s, 3.1 s.
LastSeen == {5, 30, 31}
\* What a tick reads: ok = FALSE when get_batman_status() / read_status()
\* returned None; nodes maps each remote that has a line in the feed to its
\* last_seen.
FeedDown == [ok |-> FALSE, nodes |-> EmptyDict]
Feeds ==
    {FeedDown} \cup
    {[ok |-> TRUE, nodes |-> f] : f \in UNION {[S -> LastSeen] : S \in SUBSET Hosts}}

VARIABLES
    deployment,   \* which Path Controller runs: "enhanced" or "legacy"
    node_status,  \* node_status.json written by EnhancedOGMMonitor
    node_modes,   \* node_modes.json written by MeshController
    obs,          \* the feed the latest tick was given
    consecFail,   \* history: consecutive failure readings of each remote
    consecGood,   \* history: consecutive good readings of each remote
    lastSwitch    \* history: the latest mode change of each remote

pathVars ==
    <<deployment, node_status, node_modes, obs, consecFail, consecGood, lastSwitch>>

\* enhanced_ogm_monitor.py:150-153, mesh_controller.py:57-61
FreshNode == [mode |-> "WIFI", failure_count |-> 0, good_count |-> 0]

\* Mutant of CountFailure: the good counter is not reset.
CountFailure_KeepsGood(s) ==
    LET f == s.failure_count + 1
    IN  [mode |-> IF f >= FAILURE_COUNT THEN "LORA" ELSE s.mode,
         failure_count |-> f,
         good_count |-> s.good_count]

\* Mutant of CountFailure: the failover comes one failure late.
CountFailure_Late(s) ==
    LET f == s.failure_count + 1
    IN  [mode |-> IF f > FAILURE_COUNT THEN "LORA" ELSE s.mode,
         failure_count |-> f,
         good_count |-> 0]

\* enhanced_ogm_monitor.py:163-167 / 179-183, mesh_controller.py:64-68
CountFailure(s) ==
    LET f == s.failure_count + 1
    IN  [mode |-> IF f >= FAILURE_COUNT THEN "LORA" ELSE s.mode,
         failure_count |-> f,
         good_count |-> 0]

\* Mutant of CountGood: the recovery comes one good reading early.
CountGood_Early(s) ==
    LET g == s.good_count + 1
    IN  [mode |-> IF g >= RECOVERY_COUNT - 1 THEN "WIFI" ELSE s.mode,
         failure_count |-> 0,
         good_count |-> g]

\* enhanced_ogm_monitor.py:168-172, mesh_controller.py:69-73
CountGood(s) ==
    LET g == s.good_count + 1
    IN  [mode |-> IF g >= RECOVERY_COUNT THEN "WIFI" ELSE s.mode,
         failure_count |-> 0,
         good_count |-> g]

\* Mutant of UpdateNode: a reading of exactly FAILURE_THRESHOLD counts as a
\* failure.
UpdateNode_AtThreshold(existing_status, batman_nodes, mac) ==
    LET s == IF mac \in DOMAIN existing_status THEN existing_status[mac] ELSE FreshNode
    IN  IF mac \in DOMAIN batman_nodes
        THEN IF batman_nodes[mac] >= FAILURE_THRESHOLD THEN CountFailure(s) ELSE CountGood(s)
        ELSE CountFailure(s)

\* Mutant of UpdateNode: the reading of any remote in the feed decides for
\* every remote (one failing line fails them all).
UpdateNode_Shared(existing_status, batman_nodes, mac) ==
    LET s == IF mac \in DOMAIN existing_status THEN existing_status[mac] ELSE FreshNode
    IN  IF mac \in DOMAIN batman_nodes
        THEN IF \E m \in DOMAIN batman_nodes : batman_nodes[m] > FAILURE_THRESHOLD
             THEN CountFailure(s) ELSE CountGood(s)
        ELSE CountFailure(s)

\* Mutant of UpdateNode: a remote without a line in the feed is left as it
\* was.
UpdateNode_SkipsMissing(existing_status, batman_nodes, mac) ==
    LET s == IF mac \in DOMAIN existing_status THEN existing_status[mac] ELSE FreshNode
    IN  IF mac \in DOMAIN batman_nodes
        THEN IF batman_nodes[mac] > FAILURE_THRESHOLD THEN CountFailure(s) ELSE CountGood(s)
        ELSE s

\* enhanced_ogm_monitor.py:145-183: one remote of the hostname mapping.
UpdateNode(existing_status, batman_nodes, mac) ==
    LET s == IF mac \in DOMAIN existing_status THEN existing_status[mac] ELSE FreshNode
    IN  IF mac \in DOMAIN batman_nodes
        THEN IF batman_nodes[mac] > FAILURE_THRESHOLD THEN CountFailure(s) ELSE CountGood(s)
        ELSE CountFailure(s)

\* enhanced_ogm_monitor.py:112-192 with write_status (194-207): the status
\* file after the tick.  Nothing is written when the feed could not be read.
update_node_status(existing_status, feed) ==
    IF ~feed.ok
    THEN existing_status
    ELSE [mac \in Hosts |-> UpdateNode(existing_status, feed.nodes, mac)]

\* mesh_controller.py:54-73: one remote listed in status.json.
McUpdateNode(stored_data, nodes, mac) ==
    LET s == IF mac \in DOMAIN stored_data THEN stored_data[mac] ELSE FreshNode
    IN  IF nodes[mac] > FAILURE_THRESHOLD THEN CountFailure(s) ELSE CountGood(s)

\* mesh_controller.py:44-82: only the remotes listed in status.json are
\* touched; the others keep what node_modes.json held.
update(stored_data, feed) ==
    IF ~feed.ok
    THEN stored_data
    ELSE [mac \in DOMAIN stored_data \cup DOMAIN feed.nodes |->
            IF mac \in DOMAIN feed.nodes
            THEN McUpdateNode(stored_data, feed.nodes, mac)
            ELSE stored_data[mac]]

WithinCap(status) ==
    \A h \in DOMAIN status :
        /\ status[h].failure_count <= MaxCount
        /\ status[h].good_count <= MaxCount

\* What the tick's feed says about remote h: a failure reading, a good
\* reading, or no reading at all.  The enhanced monitor writes last_seen =
\* 999.0 for a remote without a line in the feed (a failure reading); the
\* legacy controller never sees such a remote.
Reading(dep, feed, h) ==
    IF ~feed.ok THEN "none"
    ELSE IF h \notin DOMAIN feed.nodes
         THEN (IF dep = "enhanced" THEN "fail" ELSE "none")
         ELSE IF feed.nodes[h] > FAILURE_THRESHOLD THEN "fail" ELSE "good"

Bump(n) == IF n < MaxCount THEN n + 1 ELSE n

History(feed) ==
    /\ consecFail' = [h \in Hosts |->
            CASE Reading(deployment, feed, h) = "fail" -> Bump(consecFail[h])
              [] Reading(deployment, feed, h) = "good" -> 0
              [] OTHER -> consecFail[h]]
    /\ consecGood' = [h \in Hosts |->
            CASE Reading(deployment, feed, h) = "good" -> Bump(consecGood[h])
              [] Reading(deployment, feed, h) = "fail" -> 0
              [] OTHER -> consecGood[h]]

\* The mode a remote has in a status dict (a remote without an entry is
\* created in WIFI mode by the tick that first sees it).
ModeIn(status, h) == IF h \in DOMAIN status THEN status[h].mode ELSE "WIFI"

Switches(old, new) ==
    lastSwitch' = [h \in Hosts |->
        IF ModeIn(old, h) = ModeIn(new, h) THEN lastSwitch[h]
        ELSE IF ModeIn(new, h) = "LORA" THEN "to_lora" ELSE "to_wifi"]

\* EnhancedOGMMonitor.run, one iteration: update_node_status, write_status.
OgmTick(feed) ==
    /\ deployment = "enhanced"
    /\ node_status' = update_node_status(node_status, feed)
    /\ WithinCap(node_status')
    /\ obs' = feed
    /\ History(feed)
    /\ Switches(node_status, node_status')
    /\ UNCHANGED <<deployment, node_modes>>

\* mesh_controller.main, one iteration: MeshController.update.
McTick(feed) ==
    /\ deployment = "legacy"
    /\ node_modes' = update(node_modes, feed)
    /\ WithinCap(node_modes')
    /\ obs' = feed
    /\ History(feed)
    /\ Switches(node_modes, node_modes')
    /\ UNCHANGED <<deployment, node_status>>

InitPath ==
    /\ deployment \in {"enhanced", "legacy"}
    /\ node_status = EmptyDict
    /\ node_modes = EmptyDict
    /\ obs = FeedDown
    /\ consecFail = [h \in Hosts |-> 0]
    /\ consecGood = [h \in Hosts |-> 0]
    /\ lastSwitch = [h \in Hosts |-> "none"]

PathTick ==
    \/ \E feed \in Feeds : OgmTick(feed)
    \/ \E feed \in Feeds : McTick(feed)

(***************************************************************************)
(* Part 2.  ATAKHandler: compression, the recent_packets ring, staging to  *)
(*          pending/ and the pass over incoming/                           *)
(*          (tak_transmission/atak_module/atak_handler.py).                *)
(***************************************************************************)

\* utils/compression.py:12 (max_size) and atak_handler.py:323.
MAX_COMPRESSED == 350
MAX_RECENT_PACKETS == 1000

\* A raw CoT datagram is [cot |-> its content, zlen |-> the length zstd
\* compresses it to]; compressed bytes are [zstd |-> content, len |-> length].
\* NoBytes is what "if not compressed" rejects (None or empty bytes).
NoBytes == [zstd |-> 0, len |-> 0]

compress_cot_packet_Truncating(data) ==
    IF data.zlen > MAX_COMPRESSED
    THEN [zstd |-> data.cot, len |-> MAX_COMPRESSED]
    ELSE [zstd |-> data.cot, len |-> data.zlen]

compress_cot_packet(data) ==
    IF data.zlen > MAX_COMPRESSED
    THEN NoBytes
    ELSE [zstd |-> data.cot, len |-> data.zlen]

\* Bytes that are not a zstd frame of the dictionary (zstd = 0), and what
\* decompress_cot_packet returns for them (None).
Malformed == [zstd |-> 0, len |-> 100]
NoPacket == [cot |-> 0, zlen |-> 0]

decompress_cot_packet(compressed) ==
    IF compressed.zstd = 0
    THEN NoPacket
    ELSE [cot |-> compressed.zstd, zlen |-> compressed.len]

\* hashlib.md5(data).hexdigest(): one digest per byte string (collisions of
\* md5 are not modelled; len is below 1000).
md5(data) == data.zstd * 1000 + data.len

\* The packet the properties follow, other traffic, and a datagram that
\* compresses to more than MAX_COMPRESSED bytes.
Tracked == [cot |-> 1, zlen |-> 200]
Filler(n) == [cot |-> 1 + n, zlen |-> 200]
Oversize == [cot |-> 1, zlen |-> MAX_COMPRESSED + 1]

\* Bounds of the dedup specification: fresh filler packets and suppressed
\* deliveries.
MaxFiller == 1001
MaxDuplicates == 2
\* Bound of the dedup specification: oversize datagrams.
MaxDropped == 1

VARIABLES
    recent_packets,   \* ATAKHandler.recent_packets, oldest digest first
    pending,          \* shared/pending:     file name (its timestamp) -> bytes
    incoming,         \* shared/incoming:    file name (its timestamp) -> bytes
    stamp,            \* int(time.time() * 1000) of the latest staged file
    forwarded,        \* datagrams the latest pass over incoming/ put on the bus
    nextFiller,       \* history: fillers delivered so far
    observations,     \* history: calls of is_duplicate so far
    duplicates,       \* history: deliveries is_duplicate suppressed so far
    propAt,           \* history: the observations at which Tracked was propagated
    egressRun,        \* history: leading run of Tracked injections with a peer
    dropped,          \* history: oversize datagrams delivered so far
    wrote             \* history: the bus ports the latest step wrote to

atakVars == <<recent_packets, pending, incoming, stamp, forwarded>>
atakHist == <<nextFiller, observations, duplicates, propAt, egressRun, dropped, wrote>>

\* collections.deque(maxlen = MAX_RECENT_PACKETS).append
deque_append_Short(q, x) ==
    IF Len(q) >= MAX_RECENT_PACKETS - 1 THEN Append(Tail(q), x) ELSE Append(q, x)

\* A ring that makes room by dropping its newest digest.
deque_append_Newest(q, x) ==
    IF Len(q) >= MAX_RECENT_PACKETS THEN Append(SubSeq(q, 1, Len(q) - 1), x)
    ELSE Append(q, x)

deque_append(q, x) ==
    IF Len(q) >= MAX_RECENT_PACKETS THEN Append(Tail(q), x) ELSE Append(q, x)

\* is_duplicate: its return value ...
is_duplicate(recent, data) == \E i \in 1..Len(recent) : recent[i] = md5(data)

\* ... and recent_packets after the call.
remember_Never(recent, data) == recent

remember(recent, data) ==
    IF is_duplicate(recent, data) THEN recent ELSE deque_append(recent, md5(data))

\* os.listdir(dir), taken in ascending order of the names.
RECURSIVE Listing(_)
Listing(names) ==
    IF names = {} THEN <<>>
    ELSE LET first == CHOOSE n \in names : \A m \in names : n <= m
         IN  <<first>> \o Listing(names \ {first})

\* Writing data to dir/name (open(path, 'wb') replaces an existing file).
WriteFile(dir, name, data) ==
    [n \in DOMAIN dir \cup {name} |-> IF n = name THEN data ELSE dir[n]]

RemoveFile(dir, name) == [n \in DOMAIN dir \ {name} |-> dir[n]]

\* process_packet(data) when get_non_wifi_nodes() returns non_wifi_nodes
\* (shared/processing is always empty here and is left out).
\* A process_packet that looks for a non-WIFI node first and records the
\* digest only of what it stages.
process_packet_StagedOnly(data, non_wifi_nodes) ==
    LET compressed == compress_cot_packet(data)
    IN  /\ UNCHANGED forwarded
        /\ IF compressed = NoBytes
           THEN UNCHANGED <<recent_packets, pending, incoming, stamp>>
           ELSE IF non_wifi_nodes # {}
                THEN /\ recent_packets' = remember(recent_packets, compressed)
                     /\ IF is_duplicate(recent_packets, compressed)
                        THEN UNCHANGED <<pending, incoming, stamp>>
                        ELSE /\ stamp' = stamp + 1
                             /\ pending' = WriteFile(pending, stamp + 1, compressed)
                             /\ UNCHANGED incoming
                ELSE \* cleanup_shared_directories()
                     /\ pending' = EmptyDict
                     /\ incoming' = EmptyDict
                     /\ UNCHANGED <<recent_packets, stamp>>

process_packet(data, non_wifi_nodes) ==
    LET compressed == compress_cot_packet(data)
    IN  /\ UNCHANGED forwarded
        /\ IF compressed = NoBytes
           THEN UNCHANGED <<recent_packets, pending, incoming, stamp>>
           ELSE /\ recent_packets' = remember(recent_packets, compressed)
                /\ IF is_duplicate(recent_packets, compressed)
                   THEN UNCHANGED <<pending, incoming, stamp>>
                   ELSE IF non_wifi_nodes # {}
                        THEN /\ stamp' = stamp + 1
                             /\ pending' = WriteFile(pending, stamp + 1, compressed)
                             /\ UNCHANGED incoming
                        ELSE \* cleanup_shared_directories()
                             /\ pending' = EmptyDict
                             /\ incoming' = EmptyDict
                             /\ UNCHANGED stamp

\* process_incoming: one pass over the files of incoming/.  The result is
\* the ring after the pass and the datagrams forwarded, in order.
RECURSIVE incoming_pass(_, _, _)
incoming_pass(names, recent, out) ==
    IF names = <<>> THEN [recent |-> recent, out |-> out]
    ELSE LET compressed == incoming[Head(names)]
         IN  IF is_duplicate(recent, compressed)
             THEN incoming_pass(Tail(names), recent, out)
             ELSE incoming_pass(Tail(names), remember(recent, compressed),
                                IF decompress_cot_packet(compressed) # NoPacket
                                THEN Append(out, decompress_cot_packet(compressed))
                                ELSE out)

\* Mutant of incoming_kept: a forwarded file is not removed.
RECURSIVE incoming_kept_Forwarded(_, _)
incoming_kept_Forwarded(names, recent) ==
    IF names = <<>> THEN {}
    ELSE LET compressed == incoming[Head(names)]
         IN  IF is_duplicate(recent, compressed)
             THEN incoming_kept_Forwarded(Tail(names), recent)
             ELSE {Head(names)} \cup
                  incoming_kept_Forwarded(Tail(names), remember(recent, compressed))

\* The files the pass leaves in incoming/: os.remove is reached for a
\* duplicate and after a forward, not when decompress_cot_packet returned
\* None.
RECURSIVE incoming_kept(_, _)
incoming_kept(names, recent) ==
    IF names = <<>> THEN {}
    ELSE LET compressed == incoming[Head(names)]
         IN  IF is_duplicate(recent, compressed)
             THEN incoming_kept(Tail(names), recent)
             ELSE (IF decompress_cot_packet(compressed) = NoPacket
                   THEN {Head(names)} ELSE {}) \cup
                  incoming_kept(Tail(names), remember(recent, compressed))

\* atak_handler.py:97-103: the multicast groups and ports the handler
\* listens on (ATAK_OUT) and the ones it writes to (LORA_OUT).
ATAK_OUT_ADDRS == <<"224.10.10.1", "239.2.3.1", "239.5.5.55">>
ATAK_OUT_PORTS == <<17012, 6969, 7171>>
LORA_OUT_ADDRS == <<"224.10.10.1", "239.2.3.1">>
LORA_OUT_PORTS_Loop == <<17013, 6969>>

LORA_OUT_PORTS == <<17013, 6971>>

Range(s) == {s[i] : i \in 1..Len(s)}

\* zip(addrs, ports)
zip(addrs, ports) ==
    [i \in 1..(IF Len(addrs) < Len(ports) THEN Len(addrs) ELSE Len(ports)) |->
        <<addrs[i], ports[i]>>]

\* setup_atak_listening_sockets: the ports a listening socket is bound to.
ListeningPorts == {pair[2] : pair \in Range(zip(ATAK_OUT_ADDRS, ATAK_OUT_PORTS))}

\* forward_to_lora_out: the ports data is written to, ok being the ports of
\* the sockets on which send_packet succeeds.
forward_to_lora_out(data, ok) ==
    {pair[2] : pair \in {q \in Range(zip(LORA_OUT_ADDRS, LORA_OUT_PORTS)) :
                            q[2] \in ok}}

process_incoming ==
    LET pass == incoming_pass(Listing(DOMAIN incoming), recent_packets, <<>>)
    IN  /\ recent_packets' = pass.recent
        /\ forwarded' = pass.out
        /\ incoming' = [n \in incoming_kept(Listing(DOMAIN incoming), recent_packets) |->
                            incoming[n]]
        /\ UNCHANGED <<pending, stamp>>

(***************************************************************************)
(* Part 3.  PacketManager: the sender loop and the receipt callbacks       *)
(*          (reticulum_module/new_implementation/packet_manager.py).       *)
(***************************************************************************)

\* config.SEND_SPACING_DELAY and config.PACKET_TIMEOUT are read by
\* packet_manager.py:63,414,453; their values are the specification's.
SEND_SPACING_DELAY == 5
PACKET_TIMEOUT == 300
\* config.py:38
RETRY_MAX_ATTEMPTS == 5

\* The order in which node_status.json lists the remotes.
HostOrder == <<"A", "B">>

\* What one iteration of the sender loop reads: the remotes in LORA mode in
\* node_status.json, the peers listed in peer_discovery.json, and the remotes
\* PeerDiscovery.get_peer_identity knows.  A remote that is neither in LORA
\* mode nor listed is treated by run() exactly as one that misses either of
\* the two, so one of the two is given for every remote.
Worlds ==
    {w \in [lora_mode : SUBSET Hosts, peer_file : SUBSET Hosts, peer_map : SUBSET Hosts] :
        w.lora_mode \cup w.peer_file = Hosts}

\* What RNS.Packet(...).send() does: returns a receipt, returns nothing, or
\* raises.
Outcomes == {"receipt", "none", "error"}

\* An iteration of the sender loop starts 1 s after the previous one
\* (time.sleep(1)), or PACKET_TIMEOUT later.
TimeSteps == {1, PACKET_TIMEOUT}

\* The datagrams the application emits in the sender specification.
PmTraffic == {Tracked, Oversize}

VARIABLES
    sent_buffer,      \* shared/sent_buffer: file name -> bytes
    delivery_status,  \* PacketManager.delivery_status
    since_send,       \* time.time() - PacketManager.last_send_time
    receipts,         \* the RNS receipts neither proved nor timed out, oldest first
    event,            \* history: the handler that ran last and what it sent
    since_attempt,    \* history: time since packet.send() was last called
    proved            \* history: file name -> the targets that all proved

pmVars == <<sent_buffer, delivery_status, since_send, receipts>>
pmHist == <<event, since_attempt, proved>>

\* Time is kept as elapsed times.  The code compares the time since the last
\* send with SEND_SPACING_DELAY only, so the two "since" clocks stop there.
\* A receipt is due once PACKET_TIMEOUT has passed since its send; shorter
\* ages are not told apart, and a receipt becomes due on a long wait.
Elapse(clock, dt) ==
    IF clock + dt >= SEND_SPACING_DELAY THEN SEND_SPACING_DELAY ELSE clock + dt

Aged(rs, dt) ==
    [i \in 1..Len(rs) |-> [rs[i] EXCEPT !.due = rs[i].due \/ dt >= PACKET_TIMEOUT]]

RemoveAt(s, i) == [j \in 1..(Len(s) - 1) |-> IF j < i THEN s[j] ELSE s[j + 1]]

NoSends == <<>>
Event(op, filename, hostname, sends) ==
    [op |-> op, filename |-> filename, hostname |-> hostname, sends |-> sends,
     targets |-> {}]

\* The remotes that, when an iteration of run() reads its files, are in LORA
\* mode in node_status.json, listed in peer_discovery.json and known to
\* PeerDiscovery with an identity.
OverlayPeers(world) ==
    {h \in Hosts : h \in world.lora_mode /\ h \in world.peer_file /\ h \in world.peer_map}

\* The event of an iteration of run().
RunEvent(filename, sends, world) ==
    [Event("run", filename, "", sends) EXCEPT !.targets = OverlayPeers(world)]

\* The subsequence of HostOrder with the members of S.
RECURSIVE InOrder(_, _)
InOrder(order, S) ==
    IF order = <<>> THEN <<>>
    ELSE IF Head(order) \in S
         THEN <<Head(order)>> \o InOrder(Tail(order), S)
         ELSE InOrder(Tail(order), S)

\* Mutant of get_lora_nodes: the mode in node_status.json is not looked at.
get_lora_nodes_AnyMode(world) == world.peer_file

get_lora_nodes(world) == world.lora_mode \cap world.peer_file

get_peer_identity(world, hostname) == hostname \in world.peer_map

\* delivery_status[filename]["nodes"][node] (sent_time is written and never
\* read; it is left out).
NewNode_Sent == [sent |-> TRUE, delivered |-> FALSE]

NewNode == [sent |-> FALSE, delivered |-> FALSE]

NewEntry(valid_nodes) ==
    [nodes |-> [h \in valid_nodes |-> NewNode], retry_count |-> 0]

\* packet_manager.py:287-294
AddNodes(entry, valid_nodes) ==
    [entry EXCEPT !.nodes =
        [h \in DOMAIN entry.nodes \cup valid_nodes |->
            IF h \in DOMAIN entry.nodes THEN entry.nodes[h] ELSE NewNode]]

\* Mutant of all_sent: one transmitted target is enough.
any_sent(entry) == \E h \in DOMAIN entry.nodes : entry.nodes[h].sent

all_sent(entry) == \A h \in DOMAIN entry.nodes : entry.nodes[h].sent

any_delivered(entry) == \E h \in DOMAIN entry.nodes : entry.nodes[h].delivered

all_delivered(entry) == \A h \in DOMAIN entry.nodes : entry.nodes[h].delivered

\* send_to_node(hostname, data, filename), t seconds after the last send:
\* "too_soon" and "no_identity" return False before packet.send() is called.
send_to_node(hostname, t, world, outcome) ==
    IF t < SEND_SPACING_DELAY THEN "too_soon"
    ELSE IF ~get_peer_identity(world, hostname) THEN "no_identity"
    ELSE outcome[hostname]

\* The "find first node that needs sending" loops: the candidates
\* send_to_node is called for, up to the first that returns True.
RECURSIVE Tried(_, _, _, _)
Tried(cands, t, world, outcome) ==
    IF cands = <<>> THEN <<>>
    ELSE IF send_to_node(Head(cands), t, world, outcome) = "receipt"
         THEN <<Head(cands)>>
         ELSE <<Head(cands)>> \o Tried(Tail(cands), t, world, outcome)

\* The oldest file of pending/ (pending_files.sort()[0]).
Oldest_Newest == CHOOSE f \in DOMAIN pending : \A g \in DOMAIN pending : f >= g

Oldest == CHOOSE f \in DOMAIN pending : \A g \in DOMAIN pending : f <= g

\* What process_outgoing returns before it looks at a file.
NothingToSend ==
    [filename |-> 0, tried |-> <<>>, sent |-> FALSE, promote |-> FALSE,
     status |-> delivery_status]

\* process_outgoing(transmit_allowed = True), t seconds after the last send: the file it works
\* on, the remotes it called send_to_node for, whether the last call sent,
\* whether the file is renamed into sent_buffer/, and delivery_status after.
process_outgoing(t, world, outcome) ==
    LET lora_nodes == get_lora_nodes(world)
        valid_nodes == {h \in lora_nodes : get_peer_identity(world, h)}
    IN  IF lora_nodes = {} \/ DOMAIN pending = {} \/ valid_nodes = {}
        THEN NothingToSend
        ELSE LET filename == Oldest
                 known == filename \in DOMAIN delivery_status
                 entry == IF known
                          THEN AddNodes(delivery_status[filename], valid_nodes)
                          ELSE NewEntry(valid_nodes)
                 cands == InOrder(HostOrder,
                                  {h \in valid_nodes : ~entry.nodes[h].sent})
                 tried == Tried(cands, t, world, outcome)
                 sent == /\ tried # <<>>
                         /\ send_to_node(tried[Len(tried)], t, world, outcome)
                                = "receipt"
                 after == IF sent
                          THEN [entry EXCEPT !.nodes[tried[Len(tried)]].sent = TRUE]
                          ELSE entry
             IN  [filename |-> filename, tried |-> tried, sent |-> sent,
                  \* only the branch of a file already tracked renames
                  promote |-> known /\ all_sent(after),
                  status |-> [f \in DOMAIN delivery_status \cup {filename} |->
                                IF f = filename THEN after ELSE delivery_status[f]]]

\* run(): the entries the "max retries reached" clean-up removes (os.remove
\* raises, and the entry stays, when the file is not in sent_buffer/).
Reaped(status, buffer) ==
    {f \in DOMAIN status :
        status[f].retry_count >= RETRY_MAX_ATTEMPTS /\ f \in DOMAIN buffer}

\* One iteration of run(), dt seconds after the previous one.
run(dt, world, outcome) ==
    LET t == Elapse(since_send, dt)
        po == IF t >= SEND_SPACING_DELAY
              THEN process_outgoing(t, world, outcome)
              ELSE NothingToSend
        buffer == IF po.promote
                  THEN WriteFile(sent_buffer, po.filename, pending[po.filename])
                  ELSE sent_buffer
        gone == Reaped(po.status, buffer)
    IN  /\ pending' = IF po.promote THEN RemoveFile(pending, po.filename) ELSE pending
        /\ sent_buffer' = [f \in DOMAIN buffer \ gone |-> buffer[f]]
        /\ delivery_status' = [f \in DOMAIN po.status \ gone |-> po.status[f]]
        /\ receipts' =
              IF po.sent
              THEN Append(Aged(receipts, dt),
                          [filename |-> po.filename,
                           hostname |-> po.tried[Len(po.tried)],
                           due |-> FALSE])
              ELSE Aged(receipts, dt)
        /\ since_send' = IF po.sent THEN 0 ELSE t
        /\ event' = RunEvent(po.filename,
              [i \in 1..Len(po.tried) |->
                  [hostname |-> po.tried[i],
                   result |-> send_to_node(po.tried[i], t, world, outcome),
                   gap |-> IF i > 1 THEN 0 ELSE Elapse(since_attempt, dt),
                   data |-> pending[po.filename]]],
              world)
        /\ since_attempt' = IF po.tried # <<>> THEN 0 ELSE Elapse(since_attempt, dt)
        /\ UNCHANGED <<recent_packets, incoming, stamp, forwarded, proved>>

\* on_delivery(r), the delivery callback of the i-th outstanding receipt.
on_delivery(i) ==
    LET f == receipts[i].filename
        h == receipts[i].hostname
    IN  /\ receipts' = RemoveAt(receipts, i)
        /\ event' = Event("on_delivery", f, h, NoSends)
        /\ IF f \in DOMAIN delivery_status /\ h \in DOMAIN delivery_status[f].nodes
           THEN LET entry == [delivery_status[f] EXCEPT !.nodes[h].delivered = TRUE]
                IN  IF all_delivered(entry)
                    THEN /\ sent_buffer' = RemoveFile(sent_buffer, f)
                         /\ delivery_status' = RemoveFile(delivery_status, f)
                         /\ proved' = WriteFile(proved, f, DOMAIN entry.nodes)
                    ELSE /\ delivery_status' = [delivery_status EXCEPT ![f] = entry]
                         /\ UNCHANGED <<sent_buffer, proved>>
           ELSE \* unknown file, or KeyError on the hostname
                UNCHANGED <<sent_buffer, delivery_status, proved>>
        /\ UNCHANGED <<recent_packets, pending, incoming, stamp, forwarded,
                       since_send, since_attempt>>

\* on_timeout(r), the timeout callback of the i-th outstanding receipt.
on_timeout(i) ==
    LET f == receipts[i].filename
    IN  /\ receipts[i].due
        /\ receipts' = RemoveAt(receipts, i)
        /\ event' = Event("on_timeout", f, receipts[i].hostname, NoSends)
        /\ IF f \in DOMAIN delivery_status /\ f \in DOMAIN sent_buffer
           THEN /\ sent_buffer' = RemoveFile(sent_buffer, f)
                /\ delivery_status' = RemoveFile(delivery_status, f)
           ELSE \* os.remove raised: the entry stays
                UNCHANGED <<sent_buffer, delivery_status>>
        /\ UNCHANGED <<recent_packets, pending, incoming, stamp, forwarded,
                       since_send, since_attempt, proved>>

\* handle_incoming_packet(data, packet) when int(time.time()) = timestamp.
handle_incoming_packet(data, timestamp) ==
    /\ incoming' = WriteFile(incoming, timestamp, data)
    /\ UNCHANGED <<recent_packets, pending, stamp, forwarded>>
    /\ UNCHANGED <<pmVars, pmHist>>

InitPM ==
    /\ sent_buffer = EmptyDict
    /\ delivery_status = EmptyDict
    /\ since_send = SEND_SPACING_DELAY
    /\ receipts = <<>>
    /\ event = Event("init", 0, "", NoSends)
    /\ since_attempt = SEND_SPACING_DELAY
    /\ proved = EmptyDict

InitAtak ==
    /\ recent_packets = <<>>
    /\ pending = EmptyDict
    /\ incoming = EmptyDict
    /\ stamp = 0
    /\ forwarded = <<>>
    /\ nextFiller = 0
    /\ observations = 0
    /\ duplicates = 0
    /\ propAt = <<>>
    /\ egressRun = 0
    /\ dropped = 0
    /\ wrote = {}

\* The sender specification: the application emits datagrams, the sender
\* loop runs, receipts are proved or time out.
Emit == \E data \in PmTraffic, non_wifi_nodes \in SUBSET Hosts :
    process_packet(data, non_wifi_nodes) /\ UNCHANGED <<pmVars, pmHist>>

\* A further datagram arrives on the bus while no remote is in a non-WIFI
\* mode.
EmitNoOverlay ==
    process_packet(Filler(1), {}) /\ UNCHANGED <<pmVars, pmHist>>

\* packet.send() is reached only with a file in pending/ and the send
\* spacing elapsed, and only for remotes that pass both filters of
\* process_outgoing, so its outcome is drawn for those.
SendReach(dt, world) ==
    IF DOMAIN pending = {} \/ Elapse(since_send, dt) < SEND_SPACING_DELAY
    THEN {}
    ELSE get_lora_nodes(world) \cap world.peer_map

Cycle == \E dt \in TimeSteps, world \in Worlds :
    \E outcome \in [SendReach(dt, world) -> Outcomes] :
        run(dt, world, outcome)

Proof == \E i \in 1..Len(receipts) : on_delivery(i)

Timeout == \E i \in 1..Len(receipts) : on_timeout(i)

\* The dedup specification: the application emits the tracked packet (with
\* or without an overlay peer) and fresh fillers (while no overlay peer
\* exists), the overlay delivers the tracked packet into incoming/, and the
\* handler loop passes over incoming/.
TrackedBytes == compress_cot_packet(Tracked)

\* The tracked packet is delivered while the ring holds it at most
\* MaxDuplicates times.
MayDeliverTracked ==
    is_duplicate(recent_packets, TrackedBytes) => duplicates < MaxDuplicates

EgressTracked(non_wifi_nodes) ==
    LET fresh == ~is_duplicate(recent_packets, TrackedBytes)
    IN  /\ MayDeliverTracked
        /\ process_packet(Tracked, non_wifi_nodes)
        /\ observations' = observations + 1
        /\ duplicates' = IF fresh THEN duplicates ELSE duplicates + 1
        /\ propAt' = IF fresh /\ non_wifi_nodes # {}
                     THEN Append(propAt, observations + 1)
                     ELSE propAt
        /\ egressRun' = IF non_wifi_nodes # {} /\ egressRun = observations
                        THEN egressRun + 1
                        ELSE egressRun
        /\ wrote' = {}
        /\ UNCHANGED <<nextFiller, dropped, pmVars, pmHist>>

\* The application emits a datagram that zstd cannot bring under
\* MAX_COMPRESSED.
EgressOversize(non_wifi_nodes) ==
    /\ dropped < MaxDropped
    /\ process_packet(Oversize, non_wifi_nodes)
    /\ dropped' = dropped + 1
    /\ UNCHANGED <<nextFiller, observations, duplicates, propAt, egressRun>>
    /\ wrote' = {}
    /\ UNCHANGED <<pmVars, pmHist>>

EgressFiller ==
    /\ observations > 0
    /\ nextFiller < MaxFiller
    /\ process_packet(Filler(nextFiller + 1), {})
    /\ nextFiller' = nextFiller + 1
    /\ observations' = observations + 1
    /\ wrote' = {}
    /\ UNCHANGED <<duplicates, propAt, egressRun, dropped, pmVars, pmHist>>

OverlayTracked ==
    /\ DOMAIN incoming = {}
    /\ MayDeliverTracked
    /\ handle_incoming_packet(TrackedBytes, 1)
    /\ wrote' = {}
    /\ UNCHANGED <<nextFiller, observations, duplicates, propAt, egressRun, dropped>>

ProcessIncoming ==
    LET names == Listing(DOMAIN incoming)
        pass == incoming_pass(names, recent_packets, <<>>)
        hit == {k \in 1..Len(names) : incoming[names[k]] = TrackedBytes}
    IN  /\ names # <<>>
        /\ process_incoming
        /\ observations' = observations + Len(names)
        /\ duplicates' = duplicates + Len(names) - Len(pass.out)
        /\ propAt' = IF \E i \in 1..Len(pass.out) : pass.out[i] = Tracked
                     THEN Append(propAt, observations +
                                 (CHOOSE k \in hit : \A m \in hit : k <= m))
                     ELSE propAt
        /\ \E ok \in SUBSET Range(LORA_OUT_PORTS) :
              wrote' = UNION {forward_to_lora_out(pass.out[i], ok) :
                                 i \in 1..Len(pass.out)}
        /\ UNCHANGED <<nextFiller, egressRun, dropped, pmVars, pmHist>>

(***************************************************************************)
(* Part 4.  ReticulumHandler, the sender that keeps a retry queue: proof   *)
(*          and timeout callbacks, buffer reference counts and the retry   *)
(*          thread (reticulum_module/reticulum_handler.py).                *)
(***************************************************************************)

\* reticulum_handler.py:39-43
RH_RETRY_INITIAL_DELAY == 60
RH_RETRY_BACKOFF_FACTOR == 2
RH_RETRY_MAX_DELAY == 900
RH_RETRY_MAX_ATTEMPTS == 5
\* The delays retry_processing_loop sets after a rejected and a failed resend.
RH_REJECTED_DELAY == 10
RH_ERROR_DELAY == 30

\* The packets of the retry specification; a tracking key is
\* <<hostname, packet_id>> (f"{hostname}_{packet_id}").
Packets == {1}
Keys == Hosts \X Packets

\* entry['next_retry_time'] is kept as the delay it was set with (when the
\* delay has passed is the scheduler's choice); NoRetryTime stands for None.
NoRetryTime == 0

\* At most MaxReceipts receipts are outstanding.
MaxReceipts == 3

VARIABLES
    rh_pending,           \* the packet ids with a file in pending/
    message_retry_queue,  \* tracking key -> [retry_attempts, status, next_retry_time]
    buffer_refs,          \* packet_id -> [count, nodes]
    rh_sent_buffer,       \* the packet ids with a file in sent_buffer/
    node_links,           \* the hostnames whose link in node_links is ACTIVE
    to_send,              \* the targets outgoing_message_loop has yet to send to
    rh_receipts,          \* outstanding receipts: what was sent and what the callbacks name
    retry_thread          \* [alive, todo]: the retry thread and its retry_candidates

\* History of the retry specification.
VARIABLES
    rh_last_sent,         \* the key the latest step transmitted to (NoKey: none)
    rh_failed,            \* the keys that were given up at RETRY_MAX_ATTEMPTS
    rh_accepted,          \* the packets for which some packet.send() gave a receipt
    rh_dropped            \* the keys dropped at RETRY_FILE_MISSING

rhHist == <<rh_last_sent, rh_failed, rh_accepted, rh_dropped>>

\* No tracking key.
NoKey == <<"", 0>>

rhVars == <<rh_pending, message_retry_queue, buffer_refs, rh_sent_buffer, node_links,
            to_send, rh_receipts, retry_thread>>

Pow(b, n) == IF n <= 0 THEN 1 ELSE IF n = 1 THEN b ELSE IF n = 2 THEN b * b
             ELSE IF n = 3 THEN b * b * b ELSE b * b * b * b

\* A delay whose exponent is the number of timeouts, not one less.
RetryDelay_FromAttempts(retry_attempts) ==
    LET delay == RH_RETRY_INITIAL_DELAY * Pow(RH_RETRY_BACKOFF_FACTOR, retry_attempts)
    IN  IF delay < RH_RETRY_MAX_DELAY THEN delay ELSE RH_RETRY_MAX_DELAY

\* reticulum_handler.py:795-798 without the jitter factor.
RetryDelay(retry_attempts) ==
    LET delay == RH_RETRY_INITIAL_DELAY * Pow(RH_RETRY_BACKOFF_FACTOR, retry_attempts - 1)
    IN  IF delay < RH_RETRY_MAX_DELAY THEN delay ELSE RH_RETRY_MAX_DELAY

DropKey(dict, key) == [k \in DOMAIN dict \ {key} |-> dict[k]]

PutKey(dict, key, value) ==
    [k \in DOMAIN dict \cup {key} |-> IF k = key THEN value ELSE dict[k]]

\* A release that forgets the node and leaves the count as it was.
RefsReleased_Kept(refs, hostname, packet_id) ==
    IF packet_id \notin DOMAIN refs THEN refs
    ELSE PutKey(refs, packet_id,
                [count |-> refs[packet_id].count,
                 nodes |-> refs[packet_id].nodes \ {hostname}])

\* "Update buffer reference count": discard the node and decrement; the
\* entry is popped when the count is no longer positive.
RefsReleased(refs, hostname, packet_id) ==
    IF packet_id \notin DOMAIN refs THEN refs
    ELSE IF refs[packet_id].count - 1 <= 0 THEN DropKey(refs, packet_id)
         ELSE PutKey(refs, packet_id,
                     [count |-> refs[packet_id].count - 1,
                      nodes |-> refs[packet_id].nodes \ {hostname}])

\* The decrement brings the count of a tracked packet to zero or below.
LastReference(refs, packet_id) ==
    packet_id \in DOMAIN refs /\ refs[packet_id].count - 1 <= 0

\* A receipt: the key that was transmitted, the key its callbacks name, and
\* whether the callbacks read the variables of the running retry thread
\* (lambda r: self.packet_delivered(r, hostname, packet_id) in
\* retry_processing_loop closes over the loop's variables).
Receipt(sent, cb, live) == [sent |-> sent, cb |-> cb, live |-> live]

\* The receipts after the retry thread assigned hostname (and packet_id,
\* when the link is active) for the candidate key.
Rebound(rs, key, link_active) ==
    [i \in 1..Len(rs) |->
        IF rs[i].live
        THEN [rs[i] EXCEPT !.cb = IF link_active THEN key
                                  ELSE <<key[1], rs[i].cb[2]>>]
        ELSE rs[i]]

\* The receipts once the thread that made them has ended.
Frozen(rs) == [i \in 1..Len(rs) |-> [rs[i] EXCEPT !.live = FALSE]]

\* send_data_over_link(link, data, hostname, filename); link_active is
\* whether the link passed in is ACTIVE.
send_data_over_link(link_active, hostname, packet_id, outcome) ==
    LET key == <<hostname, packet_id>>
    IN  IF ~link_active
        THEN /\ outcome = "none"
             /\ UNCHANGED <<message_retry_queue, buffer_refs, rh_sent_buffer, rh_receipts>>
        ELSE IF outcome = "receipt"
        THEN /\ Len(rh_receipts) < MaxReceipts
             /\ rh_sent_buffer' = rh_sent_buffer \cup {packet_id}
             /\ buffer_refs' = PutKey(buffer_refs, packet_id,
                   IF packet_id \in DOMAIN buffer_refs
                   THEN [count |-> buffer_refs[packet_id].count + 1,
                         nodes |-> buffer_refs[packet_id].nodes \cup {hostname}]
                   ELSE [count |-> 1, nodes |-> {hostname}])
             /\ message_retry_queue' = PutKey(message_retry_queue, key,
                   [retry_attempts |-> 0, status |-> "awaiting_proof",
                    next_retry_time |-> NoRetryTime])
             /\ rh_receipts' = Append(rh_receipts, Receipt(key, key, FALSE))
        ELSE IF outcome = "none"
        THEN \* "If send failed, clean up buffer file"
             /\ rh_sent_buffer' = rh_sent_buffer \ {packet_id}
             /\ UNCHANGED <<message_retry_queue, buffer_refs, rh_receipts>>
        ELSE \* packet.send() raised: the file written before it stays
             /\ rh_sent_buffer' = rh_sent_buffer \cup {packet_id}
             /\ UNCHANGED <<message_retry_queue, buffer_refs, rh_receipts>>

\* The oldest file of pending/.
OldestPending == CHOOSE p \in rh_pending : \A q \in rh_pending : p <= q

\* outgoing_message_loop up to its loop over the targets: the oldest file
\* leaves pending/ and target_hostnames is read.
outgoing_take(target_hostnames) ==
    /\ rh_pending # {}
    /\ to_send = {}
    /\ rh_pending' = rh_pending \ {OldestPending}
    /\ to_send' = target_hostnames \X {OldestPending}
    /\ UNCHANGED <<message_retry_queue, buffer_refs, rh_sent_buffer, node_links,
                   rh_receipts, retry_thread>>

\* outgoing_message_loop, one pass of "for hostname in target_hostnames".
outgoing_send(hostname, packet_id, outcome) ==
    /\ <<hostname, packet_id>> \in to_send
    /\ to_send' = to_send \ {<<hostname, packet_id>>}
    /\ send_data_over_link(hostname \in node_links, hostname, packet_id, outcome)
    /\ UNCHANGED <<rh_pending, node_links, retry_thread>>

\* packet_delivered(receipt, hostname, packet_id) for the i-th receipt.
packet_delivered(i) ==
    LET key == rh_receipts[i].cb
        tracked == key \in DOMAIN message_retry_queue
    IN  /\ rh_receipts' = RemoveAt(rh_receipts, i)
        /\ message_retry_queue' = DropKey(message_retry_queue, key)
        /\ buffer_refs' = RefsReleased(buffer_refs, key[1], key[2])
        /\ rh_sent_buffer' =
              IF LastReference(buffer_refs, key[2]) /\ tracked
              THEN rh_sent_buffer \ {key[2]}
              ELSE rh_sent_buffer
        /\ UNCHANGED <<rh_pending, node_links, to_send, retry_thread>>

\* packet_delivery_timeout(receipt, hostname, packet_id) for the i-th receipt.
packet_delivery_timeout(i) ==
    LET key == rh_receipts[i].cb
        link_active == key[1] \in node_links
    IN  /\ rh_receipts' = RemoveAt(rh_receipts, i)
        /\ UNCHANGED <<rh_pending, node_links, to_send>>
        /\ IF key \notin DOMAIN message_retry_queue
           THEN UNCHANGED <<message_retry_queue, buffer_refs, rh_sent_buffer, retry_thread>>
           ELSE LET retry_attempts == message_retry_queue[key].retry_attempts + 1
                IN  IF retry_attempts >= RH_RETRY_MAX_ATTEMPTS
                    THEN /\ message_retry_queue' = DropKey(message_retry_queue, key)
                         /\ buffer_refs' = RefsReleased(buffer_refs, key[1], key[2])
                         /\ rh_sent_buffer' =
                               IF LastReference(buffer_refs, key[2])
                               THEN rh_sent_buffer \ {key[2]}
                               ELSE rh_sent_buffer
                         /\ UNCHANGED retry_thread
                    ELSE IF link_active
                    THEN /\ message_retry_queue' = PutKey(message_retry_queue, key,
                               [retry_attempts |-> retry_attempts,
                                status |-> "pending_retry",
                                next_retry_time |-> RetryDelay(retry_attempts)])
                         /\ retry_thread' = IF retry_thread.alive THEN retry_thread
                                            ELSE [alive |-> TRUE, todo |-> <<>>]
                         /\ UNCHANGED <<buffer_refs, rh_sent_buffer>>
                    ELSE \* "RETRY_DEFERRED"
                         /\ message_retry_queue' = PutKey(message_retry_queue, key,
                               [retry_attempts |-> retry_attempts,
                                status |-> "pending_retry",
                                next_retry_time |-> NoRetryTime])
                         /\ UNCHANGED <<buffer_refs, rh_sent_buffer, retry_thread>>

\* The keys the scan of retry_processing_loop counts as pending retries.
PendingRetries ==
    {key \in DOMAIN message_retry_queue :
        /\ message_retry_queue[key].status = "pending_retry"
        /\ message_retry_queue[key].next_retry_time # NoRetryTime}

\* The orders in which a set of keys may come out of the sort by
\* next_retry_time (the absolute times are the scheduler's choice).
Orderings(keys) ==
    {order \in UNION {[1..n -> keys] : n \in {Cardinality(keys)}} :
        \A i, j \in DOMAIN order : i # j => order[i] # order[j]}

\* retry_processing_loop, the scan at the top of its while loop: the thread
\* ends when nothing is pending, sleeps when nothing is due, and otherwise
\* takes the due entries as its retry_candidates.
retry_scan(due, order) ==
    /\ retry_thread.alive
    /\ retry_thread.todo = <<>>
    /\ UNCHANGED <<rh_pending, message_retry_queue, buffer_refs, rh_sent_buffer,
                   node_links, to_send>>
    /\ IF PendingRetries = {}
       THEN /\ due = {}
            /\ retry_thread' = [alive |-> FALSE, todo |-> <<>>]
            /\ rh_receipts' = Frozen(rh_receipts)
       ELSE /\ due # {}
            /\ due \subseteq PendingRetries
            /\ order \in Orderings(due)
            /\ retry_thread' = [alive |-> TRUE, todo |-> order]
            /\ UNCHANGED rh_receipts

\* retry_processing_loop, one pass of "for key, entry in retry_candidates".
retry_candidate(outcome) ==
    LET key == Head(retry_thread.todo)
        hostname == key[1]
        packet_id == key[2]
        link_active == hostname \in node_links
        bound == Rebound(rh_receipts, key, link_active)
        queued == key \in DOMAIN message_retry_queue
    IN  /\ retry_thread.alive
        /\ retry_thread.todo # <<>>
        /\ retry_thread' = [retry_thread EXCEPT !.todo = Tail(retry_thread.todo)]
        /\ UNCHANGED <<rh_pending, node_links, to_send>>
        /\ IF ~link_active
           THEN /\ outcome = "none"
                /\ message_retry_queue' =
                      IF queued
                      THEN [message_retry_queue EXCEPT ![key].next_retry_time = NoRetryTime]
                      ELSE message_retry_queue
                /\ rh_receipts' = bound
                /\ UNCHANGED <<buffer_refs, rh_sent_buffer>>
           ELSE IF packet_id \notin rh_sent_buffer
           THEN \* "RETRY_FILE_MISSING"
                /\ outcome = "none"
                /\ message_retry_queue' = DropKey(message_retry_queue, key)
                /\ buffer_refs' = RefsReleased(buffer_refs, hostname, packet_id)
                /\ rh_receipts' = bound
                /\ UNCHANGED rh_sent_buffer
           ELSE IF outcome = "receipt"
           THEN /\ Len(rh_receipts) < MaxReceipts
                /\ rh_receipts' = Append(bound, Receipt(key, key, TRUE))
                /\ message_retry_queue' =
                      IF queued
                      THEN [message_retry_queue EXCEPT ![key].status = "awaiting_proof",
                                                       ![key].next_retry_time = NoRetryTime]
                      ELSE message_retry_queue
                /\ UNCHANGED <<buffer_refs, rh_sent_buffer>>
           ELSE /\ rh_receipts' = bound
                /\ message_retry_queue' =
                      IF queued
                      THEN [message_retry_queue EXCEPT ![key].next_retry_time =
                               IF outcome = "none" THEN RH_REJECTED_DELAY ELSE RH_ERROR_DELAY]
                      ELSE message_retry_queue
                /\ UNCHANGED <<buffer_refs, rh_sent_buffer>>

\* outgoing_link_established with check_pending_files_for_node: the link
\* to a node becomes ACTIVE and the file waiting in pending/ is sent to it.
link_established(hostname, outcome) ==
    /\ hostname \notin node_links
    /\ node_links' = node_links \cup {hostname}
    /\ UNCHANGED <<to_send, retry_thread>>
    /\ IF rh_pending = {}
       THEN /\ outcome = "none"
            /\ UNCHANGED <<rh_pending, message_retry_queue, buffer_refs,
                           rh_sent_buffer, rh_receipts>>
       ELSE /\ rh_pending' = rh_pending \ {OldestPending}
            /\ send_data_over_link(TRUE, hostname, OldestPending, outcome)

\* The link to a node stops being ACTIVE.
link_closed(hostname) ==
    /\ hostname \in node_links
    /\ node_links' = node_links \ {hostname}
    /\ UNCHANGED <<rh_pending, message_retry_queue, buffer_refs, rh_sent_buffer,
                   to_send, rh_receipts, retry_thread>>

\* The handler after construction, with the files of Packets waiting in
\* pending/ and a link to every peer.
InitRH ==
    /\ rh_pending = Packets
    /\ message_retry_queue = EmptyDict
    /\ buffer_refs = EmptyDict
    /\ rh_sent_buffer = {}
    /\ node_links = Hosts
    /\ to_send = {}
    /\ rh_receipts = <<>>
    /\ retry_thread = [alive |-> FALSE, todo |-> <<>>]
    /\ rh_last_sent = NoKey
    /\ rh_failed = {}
    /\ rh_accepted = {}
    /\ rh_dropped = {}

\* The retry thread takes its next candidate, the candidate's link is
\* ACTIVE, its entry is in message_retry_queue and the buffer file of its
\* packet is not in sent_buffer/.
FileMissingRetry ==
    /\ retry_thread.alive /\ retry_thread.todo # <<>>
    /\ retry_thread'.todo = Tail(retry_thread.todo)
    /\ Head(retry_thread.todo) \in DOMAIN message_retry_queue
    /\ Head(retry_thread.todo)[1] \in node_links
    /\ Head(retry_thread.todo)[2] \notin rh_sent_buffer

\* What a step of the handler transmitted (packet.send() gave a receipt)
\* and which targets it gave up.
Recorded ==
    /\ rh_last_sent' =
          IF Len(rh_receipts') > Len(rh_receipts)
          THEN rh_receipts'[Len(rh_receipts')].sent
          ELSE NoKey
    /\ rh_failed' = rh_failed
    /\ rh_accepted' =
          IF Len(rh_receipts') > Len(rh_receipts)
          THEN rh_accepted \cup {rh_receipts'[Len(rh_receipts')].sent[2]}
          ELSE rh_accepted
    /\ rh_dropped' =
          IF FileMissingRetry
          THEN rh_dropped \cup {Head(retry_thread.todo)}
          ELSE rh_dropped
GaveUp ==
    /\ rh_last_sent' = NoKey
    /\ rh_failed' = rh_failed \cup (DOMAIN message_retry_queue \ DOMAIN message_retry_queue')
    /\ UNCHANGED <<rh_accepted, rh_dropped>>

TakeStep ==
    /\ \E target_hostnames \in SUBSET Hosts : outgoing_take(target_hostnames)
    /\ Recorded

SendStep ==
    /\ \E key \in Keys, outcome \in Outcomes :
          outgoing_send(key[1], key[2], outcome)
    /\ Recorded

DeliveredStep ==
    /\ \E i \in 1..Len(rh_receipts) : packet_delivered(i)
    /\ Recorded

TimeoutStep ==
    /\ \E i \in 1..Len(rh_receipts) : packet_delivery_timeout(i)
    /\ GaveUp

RetryScanStep ==
    /\ \E due \in SUBSET Keys : \E order \in Orderings(due) : retry_scan(due, order)
    /\ Recorded

RetryStep ==
    /\ \E outcome \in Outcomes : retry_candidate(outcome)
    /\ Recorded

LinkUpStep ==
    /\ \E hostname \in Hosts, outcome \in Outcomes : link_established(hostname, outcome)
    /\ Recorded

LinkDownStep ==
    /\ \E hostname \in Hosts : link_closed(hostname)
    /\ Recorded

(***************************************************************************)
(* Part 5.  The sender and the ATAK handler under one path state: both     *)
(*          read node_status.json and peer_discovery.json, whose content   *)
(*          changes only when the Path Controller or the Peer Directory    *)
(*          rewrites them.                                                 *)
(***************************************************************************)

VARIABLES
    overlay,  \* the remotes in LORA mode that have a peer_discovery.json entry
    writing,  \* the file process_packet has opened and not yet closed
    last_file \* history: hostname -> the file last sent to it (0: none)

envVars == <<overlay, writing, last_file>>

\* process_packet is not inside "with open(path, 'wb') as f".
NoWrite == [name |-> 0, bytes |-> NoBytes]

InitEnv == overlay = {} /\ writing = NoWrite /\ last_file = [h \in Hosts |-> 0]

\* What the sender reads while the files name the remotes of S (every peer
\* of the file has an identity).
WorldOf(S) == [lora_mode |-> S, peer_file |-> Hosts, peer_map |-> Hosts]

\* The datagrams the application emits in this specification.
PurgeTraffic == {Tracked}

\* A remote fails over or recovers, or the Peer Directory gains or loses a
\* peer.
PeersChange ==
    /\ \E S \in SUBSET Hosts : S # overlay /\ overlay' = S
    /\ UNCHANGED <<atakVars, pmVars, pmHist, writing, last_file>>

\* ATAKHandler.run receives a datagram from the application.
Egress ==
    /\ \E data \in PurgeTraffic : process_packet(data, overlay)
    /\ UNCHANGED <<pmVars, pmHist, overlay, writing, last_file>>

\* PacketManager.run, one iteration.
SenderCycle ==
    /\ \E dt \in TimeSteps : \E outcome \in [overlay -> Outcomes] :
          run(dt, WorldOf(overlay), outcome)
    /\ UNCHANGED <<overlay, writing, last_file>>

\* A file that open(path, 'wb') has created and whose content has not been
\* flushed yet (the write of at most MAX_COMPRESSED bytes stays in the
\* buffer of the file object until the with block closes it).
EmptyFile(compressed) == [compressed EXCEPT !.len = 0]

\* process_packet up to open(path, 'wb'): the file exists under its final
\* name in pending/.  A datagram that is not staged is handled in one step.
stage_open(data, non_wifi_nodes) ==
    LET compressed == compress_cot_packet(data)
    IN  /\ writing = NoWrite
        /\ IF /\ compressed # NoBytes
              /\ ~is_duplicate(recent_packets, compressed)
              /\ non_wifi_nodes # {}
           THEN /\ recent_packets' = remember(recent_packets, compressed)
                /\ stamp' = stamp + 1
                /\ pending' = WriteFile(pending, stamp + 1, EmptyFile(compressed))
                /\ writing' = [name |-> stamp + 1, bytes |-> compressed]
                /\ UNCHANGED <<incoming, forwarded>>
           ELSE /\ process_packet(data, non_wifi_nodes)
                /\ UNCHANGED writing

\* process_packet from f.write(compressed) to the end of the with block:
\* the content reaches the file, wherever the sender has moved it.
stage_close ==
    /\ writing # NoWrite
    /\ writing' = NoWrite
    /\ pending' = IF writing.name \in DOMAIN pending
                  THEN WriteFile(pending, writing.name, writing.bytes)
                  ELSE pending
    /\ sent_buffer' = IF writing.name \in DOMAIN sent_buffer
                      THEN WriteFile(sent_buffer, writing.name, writing.bytes)
                      ELSE sent_buffer
    /\ UNCHANGED <<recent_packets, incoming, stamp, forwarded>>
    /\ UNCHANGED <<delivery_status, since_send, receipts, pmHist, overlay, last_file>>

StageOpen ==
    /\ \E data \in PurgeTraffic : stage_open(data, overlay)
    /\ UNCHANGED <<pmVars, pmHist, overlay, last_file>>

(***************************************************************************)
(* Part 6.  PeerDiscovery: the peer records, the announce handler, link    *)
(*          identification and the removal of stale peers                  *)
(*          (reticulum_module/new_implementation/peer_discovery.py and     *)
(*          link_manager.py).                                              *)
(***************************************************************************)

\* config.py:14
PEER_TIMEOUT == 300

\* The identities a remote may present.
Identities == {"id1", "id2"}

\* Seconds between two steps of the peer specification; ages count up to
\* Expired, which stands for every age above PEER_TIMEOUT.
PdSteps == {PEER_TIMEOUT \div 2, PEER_TIMEOUT \div 2 + 1}
Expired == PEER_TIMEOUT + 1

VARIABLES
    peer_map,      \* PeerDiscovery.peer_map: hostname -> identity
    last_seen,     \* hostname -> time.time() - PeerDiscovery.last_seen[hostname]
    announce_age,  \* history: hostname -> time since its latest announce
    pd_op          \* history: the handler that ran last

pdVars == <<peer_map, last_seen, announce_age, pd_op>>

InitPD ==
    /\ peer_map = EmptyDict
    /\ last_seen = EmptyDict
    /\ announce_age = [h \in Hosts |-> Expired]
    /\ pd_op = "init"

Older(age, dt) == IF age + dt > PEER_TIMEOUT THEN Expired ELSE age + dt

\* add_peer(hostname, identity, destination_hash)
add_peer(hostname, identity) ==
    /\ peer_map' = PutKey(peer_map, hostname, identity)
    /\ last_seen' = PutKey(last_seen, hostname, 0)

\* update_peer(hostname, identity): it returns before the timestamp when
\* the identity has changed.
update_peer(hostname, identity) ==
    IF hostname \notin DOMAIN peer_map
    THEN UNCHANGED <<peer_map, last_seen>>
    ELSE IF peer_map[hostname] # identity
    THEN /\ peer_map' = PutKey(peer_map, hostname, identity)
         /\ UNCHANGED last_seen
    ELSE /\ last_seen' = PutKey(last_seen, hostname, 0)
         /\ UNCHANGED peer_map

\* AnnounceHandler.received_announce with app_data = hostname.
received_announce(hostname, identity) ==
    /\ add_peer(hostname, identity)
    /\ announce_age' = [announce_age EXCEPT ![hostname] = 0]
    /\ pd_op' = "received_announce"

\* LinkManager.remote_peer_identified(link, identity), hostname being the
\* name link_to_hostname or get_hostname_from_hash gives for the link.
remote_peer_identified(hostname, identity) ==
    /\ IF hostname \in DOMAIN peer_map
       THEN update_peer(hostname, identity)
       ELSE add_peer(hostname, identity)
    /\ pd_op' = "remote_peer_identified"
    /\ UNCHANGED announce_age

\* clean_stale_peers()
clean_stale_peers ==
    LET stale == {h \in DOMAIN last_seen : last_seen[h] > PEER_TIMEOUT}
    IN  /\ last_seen' = [h \in DOMAIN last_seen \ stale |-> last_seen[h]]
        /\ peer_map' = [h \in DOMAIN peer_map \ stale |-> peer_map[h]]
        /\ pd_op' = "clean_stale_peers"
        /\ UNCHANGED announce_age

\* Time passes between two handlers.
PdElapse ==
    \E dt \in PdSteps :
        /\ last_seen' = [h \in DOMAIN last_seen |-> Older(last_seen[h], dt)]
        /\ announce_age' = [h \in Hosts |-> Older(announce_age[h], dt)]
        /\ pd_op' = "sleep"
        /\ UNCHANGED peer_map

Announce == \E h \in Hosts, identity \in Identities : received_announce(h, identity)

Identified == \E h \in Hosts, identity \in Identities : remote_peer_identified(h, identity)

(***************************************************************************)
(* Part 7.  The callers of ATAKHandler.is_duplicate: process_packet and    *)
(*          process_incoming, both called from the loop of run(); the      *)
(*          threads of NetworkStateMonitor never touch recent_packets.     *)
(***************************************************************************)

Callers == {"process_packet", "process_incoming"}

\* The compressed packets the callers present.
DedupData == {TrackedBytes, compress_cot_packet(Filler(1))}

\* Calls of is_duplicate in a behaviour of the caller specification.
MaxCalls == 4

VARIABLES
    calls,    \* caller -> where it is in is_duplicate, and with what data
    returns   \* history: the calls that returned, in order: caller, data, fresh

ddVars == <<calls, returns>>

\* The caller is not inside is_duplicate.
Outside == [at |-> "out", data |-> NoBytes]

InitDedup ==
    /\ calls = [c \in Callers |-> Outside]
    /\ returns = <<>>

\* run() calls process_packet and process_incoming one after the other on
\* its own thread: a call of is_duplicate starts only when no other call is
\* under way.
RunThreadFree_OwnThreads == TRUE

RunThreadFree == \A c \in Callers : calls[c] = Outside

\* is_duplicate up to "if packet_hash in self.recent_packets": a hit
\* returns True at once.
dedup_test(caller, data) ==
    /\ RunThreadFree
    /\ calls[caller] = Outside
    /\ Len(returns) < MaxCalls
    /\ IF is_duplicate(recent_packets, data)
       THEN /\ returns' = Append(returns, [caller |-> caller, data |-> data,
                                           fresh |-> FALSE])
            /\ UNCHANGED calls
       ELSE /\ calls' = [calls EXCEPT ![caller] = [at |-> "append", data |-> data]]
            /\ UNCHANGED returns
    /\ UNCHANGED <<recent_packets, pending, incoming, stamp, forwarded>>

\* is_duplicate from self.recent_packets.append(packet_hash) to return False.
dedup_append(caller) ==
    /\ calls[caller].at = "append"
    /\ recent_packets' = deque_append(recent_packets, md5(calls[caller].data))
    /\ returns' = Append(returns, [caller |-> caller, data |-> calls[caller].data,
                                   fresh |-> TRUE])
    /\ calls' = [calls EXCEPT ![caller] = Outside]
    /\ UNCHANGED <<pending, incoming, stamp, forwarded>>

DedupTest == \E caller \in Callers, data \in DedupData : dedup_test(caller, data)

DedupAppend == \E caller \in Callers : dedup_append(caller)

(***************************************************************************)
(* Part 8.  The receiving half of ATAKHandler.run: the source of a         *)
(*          datagram is classified by check_ip_location and only local     *)
(*          traffic on two of the listening ports reaches process_packet.   *)
(***************************************************************************)

\* Source addresses: a client of this node's access point and a client of
\* another node, whose multicast is echoed over the mesh.
Ips == {"10.1.0.2", "10.2.0.2"}

\* The datagrams that arrive on the listening sockets.
RxTraffic == {Tracked, Filler(1)}

VARIABLES
    local_ips,   \* ATAKHandler.local_ips
    remote_ips,  \* ATAKHandler.remote_ips
    rx           \* history: the latest datagram received, how it was classified
                 \* and the non-WIFI nodes at that moment

rxVars == <<local_ips, remote_ips, rx>>

InitRx ==
    /\ local_ips = {}
    /\ remote_ips = {}
    /\ rx = [port |-> 0, ip |-> "", ip_type |-> "", data |-> NoPacket,
             non_wifi_nodes |-> {}]

\* check_ip_location(ip): its return value when get_dhcp_leases() gives
\* leases ...
check_ip_location(ip, leases) ==
    IF ip \in local_ips THEN "LOCAL"
    ELSE IF ip \in remote_ips THEN "REMOTE"
    ELSE IF ip \in leases THEN "LOCAL"
    ELSE "REMOTE"

\* ... and the two caches after the call.
Cached(ip, leases) ==
    IF ip \in local_ips \/ ip \in remote_ips
    THEN [local |-> local_ips, remote |-> remote_ips]
    ELSE IF ip \in leases
    THEN [local |-> local_ips \cup {ip}, remote |-> remote_ips \ {ip}]
    ELSE [local |-> local_ips, remote |-> remote_ips \cup {ip}]

\* run(): "if port in [17012, 6969] and ip_type == 'LOCAL'"
PassedOn_AnySource(port, ip_type) == port \in {17012, 6969}

PassedOn(port, ip_type) == port \in {17012, 6969} /\ ip_type = "LOCAL"

\* run(), one datagram: sock.recvfrom on the socket of port, from ip.
receive(port, ip, leases, data, non_wifi_nodes) ==
    LET ip_type == check_ip_location(ip, leases)
    IN  /\ local_ips' = Cached(ip, leases).local
        /\ remote_ips' = Cached(ip, leases).remote
        /\ rx' = [port |-> port, ip |-> ip, ip_type |-> ip_type, data |-> data,
                  non_wifi_nodes |-> non_wifi_nodes]
        /\ IF PassedOn(port, ip_type)
           THEN process_packet(data, non_wifi_nodes)
           ELSE UNCHANGED <<recent_packets, pending, incoming, stamp, forwarded>>

Receive ==
    \E port \in ListeningPorts, ip \in Ips, leases \in SUBSET Ips,
       data \in RxTraffic, non_wifi_nodes \in SUBSET Hosts :
        receive(port, ip, leases, data, non_wifi_nodes)

(***************************************************************************)
(* Part 9.  The per-mode transition table of the Path Controller (section  *)
(*          4.6 of the specification), run beside the code's update on     *)
(*          the same observations.                                         *)
(***************************************************************************)

VARIABLES
    table     \* the table machine's state of each remote

tblVars == <<table>>

\* "Initial state on first observation: PRIMARY, both counters zero."
TableInit == [mode |-> "PRIMARY", failure_count |-> 0, good_count |-> 0]

InitTable == table = [h \in Hosts |-> TableInit]

\* One row of the table: the remote's state after a reading of
\* time_since_last_primary_heartbeat, in tenths of a second.
TableStep(s, reading) ==
    IF s.mode = "PRIMARY"
    THEN IF reading > FAILURE_THRESHOLD
         THEN LET f == s.failure_count + 1
              IN  [mode |-> IF f >= FAILURE_COUNT THEN "OVERLAY" ELSE "PRIMARY",
                   failure_count |-> f, good_count |-> 0]
         ELSE [mode |-> "PRIMARY", failure_count |-> 0, good_count |-> s.good_count + 1]
    ELSE IF reading <= FAILURE_THRESHOLD
         THEN LET g == s.good_count + 1
              IN  [mode |-> IF g >= RECOVERY_COUNT THEN "PRIMARY" ELSE "OVERLAY",
                   failure_count |-> 0, good_count |-> g]
         ELSE [mode |-> "OVERLAY", failure_count |-> s.failure_count + 1, good_count |-> 0]

\* enhanced_ogm_monitor.py:174-176: the reading written for a remote without
\* a line in the feed (999.0 s).
NOT_SEEN == 9990

\* The observations a tick applies: the last_seen of every remote the
\* deployed controller updates from this feed.  An unreadable feed applies
\* none; the legacy controller applies none for a remote status.json does
\* not list.
Observations(dep, feed) ==
    IF ~feed.ok THEN EmptyDict
    ELSE [h \in (IF dep = "enhanced" THEN Hosts ELSE DOMAIN feed.nodes) |->
            IF h \in DOMAIN feed.nodes THEN feed.nodes[h] ELSE NOT_SEEN]

\* The table machine takes the observations of the tick.
TableTick(feed) ==
    table' = [h \in Hosts |->
                IF h \in DOMAIN Observations(deployment, feed)
                THEN TableStep(table[h], Observations(deployment, feed)[h])
                ELSE table[h]]

(***************************************************************************)
(* Part 10.  Ingress: the overlay receive callback writes incoming/ and    *)
(*           the loop of ATAKHandler.run passes over it.                   *)
(***************************************************************************)

\* Bounds of the ingress specification: packets received and seconds
\* elapsed.
MaxArrivals == 3
MaxSeconds == 2

\* What the overlay delivers: two well-formed packets and bytes that do not
\* decompress.
IngressTraffic == {TrackedBytes, compress_cot_packet(Filler(1)), Malformed}

VARIABLES
    now,        \* int(time.time())
    received,   \* history: the data handed to the receive callback, in order
    injected,   \* history: every datagram put on the bus, in order
    scanned,    \* history: the file contents process_incoming has read
    in_op       \* history: the step taken last

inVars == <<now, received, injected, scanned, in_op>>

InitIngress ==
    /\ now = 1
    /\ received = <<>>
    /\ injected = <<>>
    /\ scanned = {}
    /\ in_op = "init"

\* The receive callback runs (packet_manager.py:506-520; the file is named
\* after the second it arrives in).
Arrive ==
    /\ Len(received) < MaxArrivals
    /\ \E data \in IngressTraffic :
          /\ handle_incoming_packet(data, now)
          /\ received' = Append(received, data)
    /\ in_op' = "arrive"
    /\ UNCHANGED <<now, injected, scanned>>

\* A second passes.
Second ==
    /\ now < MaxSeconds
    /\ now' = now + 1
    /\ in_op' = "second"
    /\ UNCHANGED <<atakVars, pmVars, pmHist, received, injected, scanned>>

\* One iteration of ATAKHandler.run with no datagram on the sockets:
\* process_incoming.
Scan ==
    /\ process_incoming
    /\ injected' = injected \o forwarded'
    /\ scanned' = scanned \cup {incoming[n] : n \in DOMAIN incoming}
    /\ in_op' = "scan"
    /\ UNCHANGED <<pmVars, pmHist, now, received>>

(***************************************************************************)
(* Specifications                                                          *)
(***************************************************************************)

vars == <<pathVars, atakVars, atakHist, pmVars, pmHist, rhVars, rhHist, pdVars, ddVars, envVars, rxVars, tblVars, inVars>>

InitAll == InitPath /\ InitAtak /\ InitPM /\ InitRH /\ InitEnv /\ InitPD /\ InitDedup /\ InitRx /\ InitTable /\ InitIngress

\* The initial states of the specifications of Parts 2 to 4: the Path
\* Controller stands still before its first tick, with the enhanced monitor
\* deployed.
InitIdlePath == InitAll /\ deployment = "enhanced"

NextPath == PathTick /\ UNCHANGED <<atakVars, atakHist, pmVars, pmHist, rhVars, rhHist, pdVars, ddVars, envVars, rxVars, tblVars, inVars>>

SpecPath == InitAll /\ [][NextPath]_vars

\* The refinement specification: every tick is given to the deployed
\* controller and to the table machine.
notTable == <<atakVars, atakHist, pmVars, pmHist, rhVars, rhHist, pdVars, ddVars, envVars, rxVars, inVars>>

NextTable ==
    \/ (\E feed \in Feeds : OgmTick(feed) /\ TableTick(feed)) /\ UNCHANGED notTable
    \/ (\E feed \in Feeds : McTick(feed) /\ TableTick(feed)) /\ UNCHANGED notTable

SpecTable == InitAll /\ [][NextTable]_vars

\* The ingress specification: packets arrive from the overlay, time passes,
\* and the handler loop (while True, select with a 0.1 s timeout) keeps
\* passing over incoming/.
notIngress == <<pathVars, atakHist, rhVars, rhHist, pdVars, ddVars, envVars, rxVars, tblVars>>

NextIngress ==
    \/ Arrive /\ UNCHANGED notIngress
    \/ Second /\ UNCHANGED notIngress
    \/ Scan /\ UNCHANGED notIngress

SpecIngress ==
    /\ InitIdlePath
    /\ [][NextIngress]_vars
    /\ WF_vars(Scan /\ UNCHANGED notIngress)

NextPM ==
    \/ Emit /\ UNCHANGED <<pathVars, atakHist, rhVars, rhHist, pdVars, ddVars, envVars, rxVars, tblVars, inVars>>
    \/ EmitNoOverlay /\ UNCHANGED <<pathVars, atakHist, rhVars, rhHist, pdVars, ddVars, envVars, rxVars, tblVars, inVars>>
    \/ Cycle /\ UNCHANGED <<pathVars, atakHist, rhVars, rhHist, pdVars, ddVars, envVars, rxVars, tblVars, inVars>>
    \/ Proof /\ UNCHANGED <<pathVars, atakHist, rhVars, rhHist, pdVars, ddVars, envVars, rxVars, tblVars, inVars>>
    \/ Timeout /\ UNCHANGED <<pathVars, atakHist, rhVars, rhHist, pdVars, ddVars, envVars, rxVars, tblVars, inVars>>

SpecPM == InitIdlePath /\ [][NextPM]_vars

NextAtak ==
    \/ (\E non_wifi_nodes \in SUBSET Hosts : EgressTracked(non_wifi_nodes))
          /\ UNCHANGED <<pathVars, rhVars, rhHist, pdVars, ddVars, envVars, rxVars, tblVars, inVars>>
    \/ (\E non_wifi_nodes \in SUBSET Hosts : EgressOversize(non_wifi_nodes))
          /\ UNCHANGED <<pathVars, rhVars, rhHist, pdVars, ddVars, envVars, rxVars, tblVars, inVars>>
    \/ EgressFiller /\ UNCHANGED <<pathVars, rhVars, rhHist, pdVars, ddVars, envVars, rxVars, tblVars, inVars>>
    \/ OverlayTracked /\ UNCHANGED <<pathVars, rhVars, rhHist, pdVars, ddVars, envVars, rxVars, tblVars, inVars>>
    \/ ProcessIncoming /\ UNCHANGED <<pathVars, rhVars, rhHist, pdVars, ddVars, envVars, rxVars, tblVars, inVars>>

SpecAtak == InitIdlePath /\ [][NextAtak]_vars

notRH == <<pathVars, atakVars, atakHist, pmVars, pmHist, envVars, pdVars, ddVars, rxVars, tblVars, inVars>>

NextRH ==
    \/ TakeStep /\ UNCHANGED notRH
    \/ SendStep /\ UNCHANGED notRH
    \/ DeliveredStep /\ UNCHANGED notRH
    \/ TimeoutStep /\ UNCHANGED notRH
    \/ RetryScanStep /\ UNCHANGED notRH
    \/ RetryStep /\ UNCHANGED notRH
    \/ LinkUpStep /\ UNCHANGED notRH
    \/ LinkDownStep /\ UNCHANGED notRH

SpecRH == InitIdlePath /\ [][NextRH]_vars

notPurge == <<pathVars, atakHist, rhVars, rhHist, pdVars, ddVars, rxVars, tblVars, inVars>>

NextPurge ==
    \/ PeersChange /\ UNCHANGED notPurge
    \/ Egress /\ UNCHANGED notPurge
    \/ SenderCycle /\ UNCHANGED notPurge
    \/ Proof /\ UNCHANGED <<notPurge, envVars>>
    \/ Timeout /\ UNCHANGED <<notPurge, envVars>>

\* Both loops run for ever (while not should_quit / while True); when the
\* application emits and when the path state changes is up to the
\* environment.
SpecPurge ==
    /\ InitIdlePath
    /\ [][NextPurge]_vars
    /\ WF_vars(SenderCycle /\ UNCHANGED notPurge)

\* The ordering specification: the application emits up to MaxStaged
\* distinct datagrams, the overlay peers change, the sender loop runs with
\* the send spacing elapsed, and receipts are proved.
MaxStaged == 2

EgressFresh ==
    /\ nextFiller < MaxStaged
    /\ process_packet(Filler(nextFiller + 1), overlay)
    /\ nextFiller' = nextFiller + 1
    /\ UNCHANGED <<pmVars, pmHist, envVars>>
    /\ UNCHANGED <<observations, duplicates, propAt, egressRun, dropped, wrote>>

\* An iteration of run() that reached packet.send() and got a receipt.
Sends == Len(receipts') > Len(receipts)

SpacedCycle ==
    /\ \E outcome \in [overlay -> Outcomes] :
          run(SEND_SPACING_DELAY, WorldOf(overlay), outcome)
    /\ last_file' = IF Sends
                    THEN [last_file EXCEPT ![receipts'[Len(receipts')].hostname] =
                                              receipts'[Len(receipts')].filename]
                    ELSE last_file
    /\ UNCHANGED <<overlay, writing>>

notFifo == <<pathVars, rhVars, rhHist, pdVars, ddVars, rxVars, tblVars, inVars>>

NextFifo ==
    \/ PeersChange /\ UNCHANGED <<notFifo, atakHist>>
    \/ EgressFresh /\ UNCHANGED notFifo
    \/ SpacedCycle /\ UNCHANGED <<notFifo, atakHist>>
    \/ Proof /\ UNCHANGED <<notFifo, atakHist, envVars>>

SpecFifo == InitIdlePath /\ [][NextFifo]_vars

\* The drain specification: the application emits up to MaxStaged distinct
\* datagrams, remotes fail over and recover while at least one overlay peer
\* remains, every packet.send() returns a receipt, the sender loop keeps
\* running and every receipt is proved or times out.  The loop iterates
\* once a second (time.sleep(1)), far more often than the path state
\* changes, so an iteration that has something to do again and again does
\* run (strong fairness).
PeersRemain ==
    /\ \E S \in SUBSET Hosts : S # {} /\ S # overlay /\ overlay' = S
    /\ UNCHANGED <<atakVars, pmVars, pmHist, writing, last_file>>

DrainCycle ==
    /\ \E dt \in TimeSteps : run(dt, WorldOf(overlay), [h \in overlay |-> "receipt"])
    /\ UNCHANGED <<overlay, writing, last_file>>

Resolve == Proof \/ Timeout

NextDrain ==
    \/ PeersRemain /\ UNCHANGED <<notFifo, atakHist>>
    \/ EgressFresh /\ UNCHANGED notFifo
    \/ DrainCycle /\ UNCHANGED <<notFifo, atakHist>>
    \/ Proof /\ UNCHANGED <<notFifo, atakHist, envVars>>
    \/ Timeout /\ UNCHANGED <<notFifo, atakHist, envVars>>

SpecDrain ==
    /\ InitIdlePath
    /\ [][NextDrain]_vars
    /\ SF_vars(DrainCycle /\ UNCHANGED <<notFifo, atakHist>>)
    /\ WF_vars(Resolve /\ UNCHANGED <<notFifo, atakHist, envVars>>)

notPD == <<pathVars, atakVars, atakHist, pmVars, pmHist, rhVars, rhHist, envVars, ddVars, rxVars, tblVars, inVars>>

NextPD ==
    \/ Announce /\ UNCHANGED notPD
    \/ Identified /\ UNCHANGED notPD
    \/ clean_stale_peers /\ UNCHANGED notPD
    \/ PdElapse /\ UNCHANGED notPD

SpecPD == InitIdlePath /\ [][NextPD]_vars

notDedup == <<pathVars, atakHist, pmVars, pmHist, rhVars, rhHist, envVars, pdVars, rxVars, tblVars, inVars>>

NextDedup ==
    \/ DedupTest /\ UNCHANGED notDedup
    \/ DedupAppend /\ UNCHANGED notDedup

SpecDedup == InitIdlePath /\ [][NextDedup]_vars

notRx == <<pathVars, atakHist, pmVars, pmHist, rhVars, rhHist, envVars, pdVars, ddVars, tblVars, inVars>>

NextRx == Receive /\ UNCHANGED notRx

SpecRx == InitIdlePath /\ [][NextRx]_vars

\* The writer (ATAKHandler) and the reader (PacketManager) are two
\* processes; the writer's steps are its system calls.
NextStage ==
    \/ PeersChange /\ UNCHANGED notPurge
    \/ StageOpen /\ UNCHANGED notPurge
    \/ stage_close /\ UNCHANGED notPurge
    \/ SenderCycle /\ UNCHANGED notPurge
    \/ Proof /\ UNCHANGED <<notPurge, envVars>>
    \/ Timeout /\ UNCHANGED <<notPurge, envVars>>

SpecStage == InitIdlePath /\ [][NextStage]_vars

(***************************************************************************)
(* Path Controller properties                                              *)
(***************************************************************************)

\* The status dict of the deployed Path Controller.
PathState == IF deployment = "enhanced" THEN node_status ELSE node_modes

\* The entry a tick starts from for remote h.
EntryOf(status, h) == IF h \in DOMAIN status THEN status[h] ELSE FreshNode

\* C4: starting from freshly added remotes, after any sequence of ticks no
\* remote has failure_count > 0 and good_count > 0 at the same time.
C4_CountersExclusive ==
    \A h \in DOMAIN PathState :
        PathState[h].failure_count = 0 \/ PathState[h].good_count = 0

\* A remote that failed over and has since had good readings.
C4_Witness ==
    \E h \in DOMAIN PathState :
        /\ PathState[h].mode = "LORA"
        /\ PathState[h].good_count > 0
        /\ lastSwitch[h] = "to_lora"

\* C5: a remote goes from WIFI to LORA exactly at the tick that completes
\* FAILURE_COUNT consecutive failure readings: a switch to LORA happens only
\* with exactly FAILURE_COUNT consecutive failure readings behind it, and a
\* remote with FAILURE_COUNT or more consecutive failure readings is in LORA.
C5_FastFailover ==
    [][\A h \in DOMAIN PathState' :
          /\ (ModeIn(PathState, h) = "WIFI" /\ PathState'[h].mode = "LORA")
                => consecFail'[h] = FAILURE_COUNT
          /\ consecFail'[h] >= FAILURE_COUNT => PathState'[h].mode = "LORA"]_vars

\* A remote at the tick of its failover.
C5_Witness ==
    \E h \in DOMAIN PathState :
        /\ PathState[h].mode = "LORA"
        /\ lastSwitch[h] = "to_lora"
        /\ consecFail[h] = FAILURE_COUNT
        /\ PathState[h].failure_count = FAILURE_COUNT

\* C6: a remote goes from LORA back to WIFI exactly at the tick that
\* completes RECOVERY_COUNT consecutive good readings: the switch happens
\* only with exactly RECOVERY_COUNT consecutive good readings behind it,
\* and a remote with RECOVERY_COUNT or more of them is in WIFI (so after 9
\* it is still in LORA).
C6_PatientRecovery ==
    [][\A h \in DOMAIN PathState' :
          /\ (ModeIn(PathState, h) = "LORA" /\ PathState'[h].mode = "WIFI")
                => consecGood'[h] = RECOVERY_COUNT
          /\ consecGood'[h] >= RECOVERY_COUNT => PathState'[h].mode = "WIFI"
          /\ (ModeIn(PathState, h) = "LORA" /\ consecGood'[h] \in 1..(RECOVERY_COUNT - 1))
                => PathState'[h].mode = "LORA"]_vars

\* A remote at the tick of its recovery.
C6_Witness ==
    \E h \in DOMAIN PathState :
        /\ PathState[h].mode = "WIFI"
        /\ lastSwitch[h] = "to_wifi"
        /\ consecGood[h] = RECOVERY_COUNT

\* The remotes the deployed controller knows before a tick: the hostname
\* mapping (enhanced), the keys of node_modes.json (legacy).
Known == IF deployment = "enhanced" THEN Hosts ELSE DOMAIN node_modes

Unobserved(feed, h) == ~feed.ok \/ h \notin DOMAIN feed.nodes

CountedAsFailure(h) ==
    /\ h \in DOMAIN PathState'
    /\ PathState'[h].failure_count = EntryOf(PathState, h).failure_count + 1
    /\ PathState'[h].good_count = 0

\* C7 as stated: at every tick each known remote without an observation
\* (missing from the feed, or the feed unreadable) is counted as a failure.
C7_UnobservedIsFailure ==
    [][\A h \in Known : Unobserved(obs', h) => CountedAsFailure(h)]_vars

\* C7 as amended: the enhanced monitor counts a remote that is missing from
\* a feed it could read as a failure (so 3 such ticks in a row put it in
\* LORA); a tick whose feed could not be read changes nothing; and the
\* legacy controller leaves a remote that status.json does not list as it
\* was.
C7_MissingIsFailure ==
    [][/\ (deployment = "enhanced" /\ obs'.ok) =>
            \A h \in Hosts \ DOMAIN obs'.nodes :
                /\ CountedAsFailure(h)
                /\ consecFail'[h] >= FAILURE_COUNT => PathState'[h].mode = "LORA"
       /\ ~obs'.ok => PathState' = PathState
       /\ (deployment = "legacy" /\ obs'.ok) =>
            \A h \in Known \ DOMAIN obs'.nodes : PathState'[h] = PathState[h]]_vars

\* A remote of the enhanced monitor that failed over on a tick whose feed
\* did not list it.
C7_Witness ==
    \E h \in Hosts :
        /\ deployment = "enhanced"
        /\ obs.ok /\ h \notin DOMAIN obs.nodes
        /\ h \in DOMAIN node_status
        /\ node_status[h].mode = "LORA"
        /\ node_status[h].failure_count = FAILURE_COUNT
        /\ lastSwitch[h] = "to_lora"

(***************************************************************************)
(* PacketManager properties                                                *)
(***************************************************************************)

\* A target is terminal when it is delivered or out of attempts.
Terminal(entry, h) ==
    entry.nodes[h].delivered \/ entry.retry_count >= RETRY_MAX_ATTEMPTS

\* The step is the delivery callback of a receipt for file f and remote h.
ProofStep(f, h) ==
    /\ event'.op = "on_delivery"
    /\ event'.filename = f
    /\ event'.hostname = h
    /\ Len(receipts') < Len(receipts)

\* C1: a file is never removed from sent_buffer/ while some target of its
\* ledger entry is still non-terminal (neither delivered, counting the proof
\* that arrives in this step, nor at RETRY_MAX_ATTEMPTS attempts).
C1_NeverRemovedWhileLive ==
    [][\A f \in DOMAIN sent_buffer :
          f \notin DOMAIN sent_buffer' =>
             /\ f \in DOMAIN delivery_status
             /\ \A h \in DOMAIN delivery_status[f].nodes :
                   Terminal(delivery_status[f], h) \/ ProofStep(f, h)]_vars

\* C2: once every target of a packet has proved delivery, its file is in
\* neither pending/ nor sent_buffer/ (processing/ is never used) and no
\* later iteration of the sender loop transmits it.
C2_ProvedIsGone ==
    \A f \in DOMAIN proved :
        /\ f \notin DOMAIN pending
        /\ f \notin DOMAIN sent_buffer
        /\ ~(event.op = "run" /\ event.filename = f /\ event.sends # NoSends)

\* C3: every call of packet.send(), whatever it returns, comes at least
\* SEND_SPACING_DELAY seconds after the previous call.
C3_SendSpacing ==
    \A i \in 1..Len(event.sends) :
        event.sends[i].result \in Outcomes =>
            event.sends[i].gap >= SEND_SPACING_DELAY

Other(h) == CHOOSE o \in Hosts : o # h

\* C9: for a packet whose targets are A and B, one iteration of the sender
\* loop sends to at most one of them; the proof of one target while the
\* other has not proved leaves the file and the ledger entry in place, and
\* the proof of the second target deletes the file and removes the entry.
C9_FanOutCleanup ==
    [][\A f \in DOMAIN delivery_status :
          DOMAIN delivery_status[f].nodes = Hosts =>
             /\ Cardinality({h \in Hosts :
                    /\ ~delivery_status[f].nodes[h].sent
                    /\ f \in DOMAIN delivery_status'
                    /\ delivery_status'[f].nodes[h].sent}) <= 1
             /\ \A h \in Hosts :
                   (ProofStep(f, h) /\ f \in DOMAIN pending \cup DOMAIN sent_buffer) =>
                      IF delivery_status[f].nodes[Other(h)].delivered
                      THEN /\ f \notin DOMAIN sent_buffer'
                           /\ f \notin DOMAIN pending'
                           /\ f \notin DOMAIN delivery_status'
                      ELSE /\ f \in DOMAIN pending' \cup DOMAIN sent_buffer'
                           /\ f \in DOMAIN delivery_status'
                           /\ delivery_status'[f].nodes[h].delivered]_vars

\* The second of the two proofs has just arrived.
C9_Witness ==
    /\ event.op = "on_delivery"
    /\ event.filename \in DOMAIN proved
    /\ proved[event.filename] = Hosts
    /\ event.filename \notin DOMAIN sent_buffer
    /\ event.filename \notin DOMAIN delivery_status

(***************************************************************************)
(* ATAKHandler properties                                                  *)
(***************************************************************************)

\* The observations strictly between the i-th and the j-th propagation of
\* the tracked packet.
Between(i, j) == propAt[j] - propAt[i] - 1

\* The files of pending/ that hold the tracked packet.
TrackedSpool == {f \in DOMAIN pending : pending[f] = TrackedBytes}

\* The tracked packet was injected three times on an egress port, each time
\* with an overlay peer present, and nothing else was delivered.
ThreeInjections == egressRun = 3 /\ observations = 3

\* C8: of two deliveries of the same compressed bytes separated by fewer
\* than 1024 observations at most one is propagated, and three injections
\* of the packet with an overlay peer present leave exactly one spool file.
C8_DedupWithin1024 ==
    /\ \A i, j \in 1..Len(propAt) : i < j => Between(i, j) >= 1024
    /\ ThreeInjections => Cardinality(TrackedSpool) = 1

\* C8 as amended: the same with the window of MAX_RECENT_PACKETS (1000)
\* observations that the ring gives.
C8_DedupWithinRing ==
    /\ \A i, j \in 1..Len(propAt) : i < j => Between(i, j) >= MAX_RECENT_PACKETS
    /\ ThreeInjections => Cardinality(TrackedSpool) = 1

\* Three injections, the second and third suppressed, one spool file.
C8_Witness ==
    /\ ThreeInjections
    /\ duplicates = 2
    /\ propAt = <<1>>
    /\ Cardinality(TrackedSpool) = 1


(***************************************************************************)
(* ReticulumHandler properties                                             *)
(***************************************************************************)

\* A transmission to the target is in flight: a receipt that was sent to it,
\* or whose callbacks name it, is outstanding.
InFlight(key) ==
    \E i \in 1..Len(rh_receipts) :
        rh_receipts[i].sent = key \/ rh_receipts[i].cb = key

\* The retry thread will pick the target up: it is pending with a retry time.
RetryPending(key) ==
    /\ message_retry_queue[key].status = "pending_retry"
    /\ message_retry_queue[key].next_retry_time # NoRetryTime

\* The retry of the target waits for its link to come back.
RetryDeferred(key) ==
    /\ message_retry_queue[key].status = "pending_retry"
    /\ key[1] \notin node_links

\* C10: a target that has not proved delivery and has timed out fewer than
\* RETRY_MAX_ATTEMPTS (5) times is on its way to its next timeout: a
\* transmission to it is in flight, or its retransmission is pending in the
\* retry queue (scheduled, or put off while its link is down).
C10_RetryPendingOrInFlight ==
    \A key \in DOMAIN message_retry_queue :
        /\ message_retry_queue[key].retry_attempts < RH_RETRY_MAX_ATTEMPTS
        /\ \/ message_retry_queue[key].status = "awaiting_proof" /\ InFlight(key)
           \/ RetryPending(key)
           \/ RetryDeferred(key)

\* C11: the attempts of a tracked (packet, target) pair never exceed
\* RETRY_MAX_ATTEMPTS (5), and no step transmits to a pair that was given up
\* at RETRY_MAX_ATTEMPTS.
C11_BoundedAttempts ==
    /\ \A key \in DOMAIN message_retry_queue :
          message_retry_queue[key].retry_attempts <= RH_RETRY_MAX_ATTEMPTS
    /\ rh_last_sent \notin rh_failed

\* C12: an iteration of the sender loop calls packet.send() only for remotes
\* that are, at that iteration, in LORA mode in the path-state export and
\* known to the Peer Directory with an identity (so a remote that has
\* recovered to WIFI is sent nothing further), and every such remote is a
\* target in the ledger entry of the pending file the iteration works on.
C12_OnlyOverlayPeers ==
    event.op = "run" =>
        /\ \A i \in 1..Len(event.sends) :
              event.sends[i].result \in Outcomes =>
                  event.sends[i].hostname \in event.targets
        /\ (event.filename \in DOMAIN delivery_status /\ event.filename \in DOMAIN pending)
              => event.targets \subseteq DOMAIN delivery_status[event.filename].nodes

\* A send to B in an iteration where A, sent to earlier, is no longer an
\* overlay peer and B has newly become one.
C12_Witness ==
    /\ event.op = "run"
    /\ event.targets = {"B"}
    /\ Len(event.sends) = 1
    /\ event.sends[1].hostname = "B"
    /\ event.sends[1].result = "receipt"
    /\ \E i \in 1..Len(receipts) : receipts[i].hostname = "A"

\* The targets of the entry that are overlay peers in the iteration that
\* made the event.
Remaining(entry, ev) == DOMAIN entry.nodes \cap ev.targets

\* C13: when an iteration of the sender loop works on a packet already in
\* the ledger and every target that is still an overlay peer has been sent
\* (the other targets left OVERLAY mode or the Peer Directory before they
\* were sent to), the packet is fully dispatched: its file has left
\* pending/ for sent_buffer/; and the delivered state of its targets is
\* kept.
C13_DispatchedWithoutLeavers ==
    [][\A f \in DOMAIN delivery_status :
          (/\ event'.op = "run"
           /\ event'.filename = f
           /\ f \in DOMAIN pending
           /\ f \in DOMAIN delivery_status'
           /\ Remaining(delivery_status'[f], event') # {}
           /\ \A h \in Remaining(delivery_status'[f], event') :
                 delivery_status'[f].nodes[h].sent)
          => /\ f \notin DOMAIN pending'
             /\ f \in DOMAIN sent_buffer'
             /\ \A h \in DOMAIN delivery_status[f].nodes :
                   delivery_status[f].nodes[h].delivered
                      => delivery_status'[f].nodes[h].delivered]_vars

\* C14: a fresh egress packet that process_packet handles while no overlay
\* peer exists (the ring takes its hash and nothing is staged) causes no
\* overlay send, and after the purge it triggers no file remains in
\* pending/ or sent_buffer/ (processing/ is not used by this sender).
C14_PurgeLeavesNothing ==
    [][(recent_packets' # recent_packets /\ stamp' = stamp)
          => /\ DOMAIN pending' = {}
             /\ DOMAIN sent_buffer' = {}
             /\ receipts' = receipts
             /\ event' = event]_vars

\* C15: whenever no overlay peer is left while files are staged in
\* pending/, the staged files are eventually discarded (or the overlay gets
\* a peer again), whether or not the application emits another packet.
C15_PurgeEventually ==
    (overlay = {} /\ DOMAIN pending # {}) ~> (DOMAIN pending = {} \/ overlay # {})

\* C16: whatever the interleaving of the writer and the sender, every file
\* the sender reads from pending/ and hands to packet.send() holds the
\* complete compressed packet.
C16_SenderReadsWholeFiles ==
    \A i \in 1..Len(event.sends) :
        event.sends[i].result \in Outcomes =>
            event.sends[i].data = TrackedBytes

\* C17: a datagram whose compressed size exceeds MAX_COMPRESSED is dropped
\* at ingress: compress_cot_packet gives no data for it, and the step of
\* process_packet that handles it leaves the dedup ring, pending/, incoming/
\* and sent_buffer/ as they were and stages no file.
C17_OversizeDropped ==
    [][dropped' # dropped =>
          /\ compress_cot_packet(Oversize) = NoBytes
          /\ UNCHANGED <<recent_packets, pending, incoming, sent_buffer, stamp>>]_vars

\* An oversize datagram was handled while the ring held a digest and a
\* delivery from the overlay was waiting in incoming/.
C17_Witness ==
    /\ dropped = MaxDropped
    /\ Oversize.zlen > MAX_COMPRESSED
    /\ recent_packets # <<>>
    /\ DOMAIN incoming # {}

\* C18: a payload that arrived from the overlay is written only to the
\* app-ingress ports 17013 and 6971 and never to an app-egress port (17012,
\* 6969, 7171); the ports the handler writes to are disjoint from the ports
\* it listens on.
C18_NoLoopback ==
    /\ wrote \subseteq {17013, 6971}
    /\ wrote \cap {17012, 6969, 7171} = {}
    /\ wrote \cap ListeningPorts = {}
    /\ Range(LORA_OUT_PORTS) \cap ListeningPorts = {}

\* A payload from the overlay was put on the bus on both app-ingress ports.
C18_Witness ==
    /\ forwarded = <<Tracked>>
    /\ wrote = {17013, 6971}

\* C19: for every (packet, target) pair at most one transmission awaits its
\* proof: among the receipts that are neither proved nor timed out, of the
\* sender loop's first sends and of the retry thread's resends, no two are
\* for the same packet and the same target.
C19_OneAwaitingProof ==
    /\ \A i, j \in 1..Len(receipts) :
          (receipts[i].filename = receipts[j].filename
              /\ receipts[i].hostname = receipts[j].hostname) => i = j
    /\ \A i, j \in 1..Len(rh_receipts) :
          rh_receipts[i].sent = rh_receipts[j].sent => i = j

\* C20: the sender loop sends the files of pending/ to any one target in
\* ascending order of their names, and never sends a file to a target while
\* an older file is in pending/ that has not been sent to that target.
C20_PerTargetFifo ==
    [][Sends =>
          LET h == receipts'[Len(receipts')].hostname
              f == receipts'[Len(receipts')].filename
          IN  /\ last_file[h] <= f
              /\ \A g \in DOMAIN pending :
                    g < f => /\ g \in DOMAIN delivery_status'
                             /\ h \in DOMAIN delivery_status'[g].nodes
                             /\ delivery_status'[g].nodes[h].sent]_vars

\* The last file was sent to A after the earlier ones, and the sends of all
\* of them to A await their proofs.
C20_Witness ==
    /\ last_file["A"] = MaxStaged
    /\ \A f \in 1..MaxStaged :
          \E i \in 1..Len(receipts) :
              receipts[i].filename = f /\ receipts[i].hostname = "A"

\* The file an iteration of run() renames from pending/ into sent_buffer/.
Promoted(f) == f \in DOMAIN sent_buffer' /\ f \notin DOMAIN sent_buffer

\* C21: an overlay peer that becomes eligible while a file is in pending/
\* and tracked is added to the file's entry with delivered = false and with
\* sent = false unless that very iteration sends to it; the file is renamed
\* into sent_buffer/ only when every peer eligible at that iteration is in
\* its entry and sent; no file of sent_buffer/ is ever transmitted.
C21_LatePeerJoinsFanOut ==
    [][/\ \A f \in DOMAIN pending \cap DOMAIN delivery_status :
             (event'.op = "run" /\ event'.filename = f) =>
                 \A h \in event'.targets \ DOMAIN delivery_status[f].nodes :
                     /\ f \in DOMAIN delivery_status'
                     /\ h \in DOMAIN delivery_status'[f].nodes
                     /\ ~delivery_status'[f].nodes[h].delivered
                     /\ delivery_status'[f].nodes[h].sent =>
                           (Sends /\ receipts'[Len(receipts')].hostname = h)
       /\ \A f \in DOMAIN pending :
             Promoted(f) =>
                 /\ f \in DOMAIN delivery_status'
                 /\ event'.targets \subseteq DOMAIN delivery_status'[f].nodes
                 /\ all_sent(delivery_status'[f])
       /\ Sends => receipts'[Len(receipts')].filename \notin DOMAIN sent_buffer]_vars

\* B became eligible after the file was sent to A; the latest iteration put
\* B into the entry, its send to B gave no receipt, and the file is still in
\* pending/.
C21_Witness ==
    /\ event.op = "run"
    /\ event.filename \in DOMAIN pending
    /\ event.filename \in DOMAIN delivery_status
    /\ event.targets = {"A", "B"}
    /\ Len(event.sends) = 1
    /\ event.sends[1].hostname = "B"
    /\ event.sends[1].result = "none"
    /\ delivery_status[event.filename].nodes["A"].sent
    /\ ~delivery_status[event.filename].nodes["B"].sent

\* C22: right after clean_stale_peers has run, PeerDiscovery holds a record
\* (peer_map and last_seen entry) for a hostname if and only if an announce
\* from that hostname was received within the last PEER_TIMEOUT seconds.
C22_RecordIffAnnounced ==
    pd_op = "clean_stale_peers" =>
        \A h \in Hosts :
            (h \in DOMAIN peer_map /\ h \in DOMAIN last_seen)
                <=> announce_age[h] <= PEER_TIMEOUT

\* The compressed packets is_duplicate is asked about: the tracked packet
\* and the filler delivered last.
Observed == {TrackedBytes, compress_cot_packet(Filler(nextFiller))}

\* C23: is_duplicate returns False exactly when the digest was not in the
\* ring right before the call, the digest is in the ring after any call,
\* and the same bytes presented a second time right after are a duplicate
\* that leaves the ring as it is.
C23_FreshThenDuplicate ==
    \A data \in Observed :
        LET after == remember(recent_packets, data)
        IN  /\ ~is_duplicate(recent_packets, data)
                  <=> md5(data) \notin Range(recent_packets)
            /\ md5(data) \in Range(after)
            /\ is_duplicate(after, data)
            /\ remember(after, data) = after

\* The ring is full and the tracked packet, observed earlier, has been
\* pushed out of it: its next observation is fresh and evicts the oldest
\* digest.
C23_Witness ==
    /\ Len(recent_packets) = MAX_RECENT_PACKETS
    /\ propAt # <<>>
    /\ ~is_duplicate(recent_packets, TrackedBytes)

\* The calls that returned Fresh for the data.
FreshReturns(data) ==
    {i \in 1..Len(returns) : returns[i].data = data /\ returns[i].fresh}

RefCount(packet_id) ==
    IF packet_id \in DOMAIN buffer_refs THEN buffer_refs[packet_id].count ELSE 0

\* The targets of the packet that are tracked in message_retry_queue.
TrackedTargets(packet_id) ==
    {key \in DOMAIN message_retry_queue : key[2] = packet_id}

\* C25: in every state the reference count of every packet equals the
\* number of its targets in message_retry_queue (those not yet terminal),
\* and a step deletes the packet's buffer file exactly when it brings the
\* count to zero.
C25_RefCountMatchesQueue ==
    /\ [](\A packet_id \in Packets :
             RefCount(packet_id) = Cardinality(TrackedTargets(packet_id)))
    /\ [][\A packet_id \in Packets :
             (packet_id \in rh_sent_buffer /\ packet_id \notin rh_sent_buffer')
                 <=> (RefCount(packet_id) > 0 /\ RefCount(packet_id)' = 0)]_vars

\* C26: a datagram received on a listening port is handed to the
\* compress/dedup/spool pipeline only when its source is classified LOCAL: a
\* step that receives a datagram classified REMOTE leaves the dedup ring
\* and pending/ as they were and stages nothing.
C26_OnlyLocalEgress ==
    [][rx'.ip_type # "LOCAL" =>
          UNCHANGED <<recent_packets, pending, sent_buffer, stamp>>]_vars

\* A datagram from the client of another node arrived on an app-egress port
\* and was classified REMOTE, after local traffic had been staged.
C26_Witness ==
    /\ rx.port = 17012
    /\ rx.ip_type = "REMOTE"
    /\ rx.ip \in remote_ips
    /\ local_ips # {}
    /\ DOMAIN pending # {}
    /\ Len(recent_packets) = 1

(***************************************************************************)
(* Determinism of the per-remote update                                    *)
(***************************************************************************)

\* A copy of one remote's entry: mode and the two counters, nothing else.
Clone(s) ==
    [mode |-> s.mode, failure_count |-> s.failure_count, good_count |-> s.good_count]

\* Two feeds hold the same observation of remote h.
SameObservation(feed1, feed2, h) ==
    /\ feed1.ok /\ feed2.ok
    /\ h \in DOMAIN feed1.nodes <=> h \in DOMAIN feed2.nodes
    /\ h \in DOMAIN feed1.nodes => feed1.nodes[h] = feed2.nodes[h]

Drained(f) ==
    /\ f \notin DOMAIN pending
    /\ f \notin DOMAIN sent_buffer
    /\ f \notin DOMAIN delivery_status

\* C28: while the sender loop keeps running, an overlay peer exists and
\* every receipt is proved or times out, every packet staged in pending/ is
\* eventually gone from pending/ and sent_buffer/ and its delivery_status
\* entry removed.
C28_SpoolDrains ==
    \A f \in 1..MaxStaged : (f \in DOMAIN pending) ~> Drained(f)

(***************************************************************************)
(* The code's update and the transition table                              *)
(***************************************************************************)

\* The specification's name of a mode of node_status.json / node_modes.json.
SpecMode(mode) == IF mode = "LORA" THEN "OVERLAY" ELSE "PRIMARY"

EveryTargetSent(status, f) ==
    \A h \in DOMAIN status[f].nodes : status[f].nodes[h].sent

\* C30: the sender renames a file from pending/ into sent_buffer/ only
\* with every target of its ledger entry sent, and no file is in
\* sent_buffer/ while a target of its ledger entry has sent = False.
C30_PromotedWhenAllSent ==
    /\ [](\A f \in DOMAIN sent_buffer \cap DOMAIN delivery_status :
             EveryTargetSent(delivery_status, f))
    /\ [][\A f \in DOMAIN pending :
             Promoted(f) =>
                 /\ f \in DOMAIN delivery_status'
                 /\ EveryTargetSent(delivery_status', f)
                 /\ f \notin DOMAIN pending']_vars

\* The iteration that transmitted to the second of two targets and renamed
\* the file.
C30_Witness ==
    /\ event.op = "run" /\ event.filename \in DOMAIN sent_buffer
    /\ event.filename \in DOMAIN delivery_status
    /\ DOMAIN delivery_status[event.filename].nodes = Hosts
    /\ Len(event.sends) = 1 /\ event.sends[1].result = "receipt"
    /\ Len(receipts) = 2

(***************************************************************************)
(* Ingress routing                                                         *)
(***************************************************************************)

NoRepeat(s) == \A i, j \in 1..Len(s) : i # j => s[i] # s[j]

\* C31: every file placed in incoming/ is eventually removed; a pass drops
\* a file whose content is a duplicate or does not decompress without a
\* bus write for it, keeps no file it has forwarded, and no packet is put
\* on the bus twice, however many passes run.
C31_IngressRouting ==
    /\ [](NoRepeat(injected) /\ NoPacket \notin Range(injected))
    /\ [][in_op' = "scan" =>
             /\ NoRepeat(forwarded')
             /\ \A n \in DOMAIN incoming :
                   /\ (is_duplicate(recent_packets, incoming[n])
                            \/ decompress_cot_packet(incoming[n]) = NoPacket)
                        => decompress_cot_packet(incoming[n]) \notin Range(forwarded')
                   /\ n \in DOMAIN incoming' =>
                        /\ decompress_cot_packet(incoming[n]) = NoPacket
                        /\ ~is_duplicate(recent_packets, incoming[n])]_vars
    /\ \A n \in 1..MaxSeconds : (n \in DOMAIN incoming) ~> (n \notin DOMAIN incoming)

\* A pass has kept a file that did not decompress, a later pass removed it
\* as a duplicate, and a well-formed packet that arrived twice was put on
\* the bus once.
C31_Witness ==
    /\ in_op = "scan"
    /\ DOMAIN incoming = {}
    /\ Malformed \in scanned
    /\ received = <<Malformed, TrackedBytes, TrackedBytes>>
    /\ injected = <<Tracked>>

\* The contents of the files of incoming/.
Waiting == {incoming[n] : n \in DOMAIN incoming}

\* C36: every packet handed to the receive callback is in a file of
\* incoming/ until a pass of process_incoming has read it; packets of
\* different content that arrive in the same second are both read.
C36_NoInboundLoss ==
    \A i \in 1..Len(received) : received[i] \in Waiting \/ received[i] \in scanned

(***************************************************************************)
(* A packet no target accepted                                             *)
(***************************************************************************)

\* The packets outgoing_message_loop is sending to its targets.
InHand(ts) == {key[2] : key \in ts}

\* C32: when outgoing_message_loop has gone through the targets of a packet
\* it took from pending/ and no send of the packet was accepted, the
\* packet's file is in pending/ again for a later iteration.
C32_UnsentStaysQueued ==
    [][\A packet_id \in InHand(to_send) \ InHand(to_send') :
          packet_id \notin rh_accepted' => packet_id \in rh_pending']_vars

(***************************************************************************)
(* A retry whose buffer file is missing                                    *)
(***************************************************************************)

RECURSIVE Power(_, _)
Power(base, exponent) == IF exponent = 0 THEN 1 ELSE base * Power(base, exponent - 1)

\* min(initial * backoff^(k-1), max)
Schedule(initial, backoff, max, k) ==
    LET delay == initial * Power(backoff, k - 1)
    IN  IF delay <= max THEN delay ELSE max

\* The latest step was the k-th proof timeout of key and scheduled a retry.
ScheduledAfter(key, k) ==
    /\ Len(rh_receipts') = Len(rh_receipts) - 1
    /\ key \in DOMAIN message_retry_queue
    /\ key \in DOMAIN message_retry_queue'
    /\ message_retry_queue[key].retry_attempts = k - 1
    /\ message_retry_queue'[key].retry_attempts = k
    /\ message_retry_queue'[key].status = "pending_retry"
    /\ message_retry_queue'[key].next_retry_time # NoRetryTime

\* The delays of the first RETRY_MAX_ATTEMPTS - 1 timeouts.
Delays(initial, backoff, max) ==
    [k \in 1..(RH_RETRY_MAX_ATTEMPTS - 1) |-> Schedule(initial, backoff, max, k)]

FreshAppended ==
    /\ recent_packets' # <<>>
    /\ recent_packets'[Len(recent_packets')] \notin Range(recent_packets)
    /\ IF Len(recent_packets) < MAX_RECENT_PACKETS
       THEN SubSeq(recent_packets', 1, Len(recent_packets') - 1) = recent_packets
       ELSE SubSeq(recent_packets', 1, Len(recent_packets') - 1) = Tail(recent_packets)

\* C35: recent_packets never holds more than its capacity; observing a
\* fresh digest appends it, and when the ring is full that drops exactly
\* the oldest digest; an observation that is a duplicate changes neither
\* the contents nor the order of the ring.
C35_RingFifo ==
    /\ [](Len(recent_packets) <= MAX_RECENT_PACKETS)
    /\ [][/\ recent_packets' # recent_packets => FreshAppended
          /\ duplicates' > duplicates => recent_packets' = recent_packets
          /\ (observations' = observations + 1 /\ duplicates' = duplicates
                 /\ dropped' = dropped)
               => FreshAppended]_vars

\* The ring is full, a fresh filler has pushed the digest of the tracked
\* packet out of its head, and a duplicate has been observed.
C35_Witness ==
    /\ Len(recent_packets) = MAX_RECENT_PACKETS
    /\ nextFiller = MaxFiller
    /\ recent_packets[1] = md5(compress_cot_packet(Filler(2)))
    /\ recent_packets[MAX_RECENT_PACKETS] = md5(compress_cot_packet(Filler(MaxFiller)))
    /\ duplicates > 0
(***************************************************************************)
(* The purge and incoming/                                                 *)
(***************************************************************************)

\* C37: the purge that process_packet runs when no remote is off WIFI
\* removes files from the outbound spool only: a file leaves incoming/
\* only in a pass of process_incoming, which drops it as a duplicate or
\* records its digest and puts its datagram on the bus.
C37_PurgeSparesIncoming ==
    [][\A name \in DOMAIN incoming \ DOMAIN incoming' :
          \/ is_duplicate(recent_packets, incoming[name])
          \/ /\ is_duplicate(recent_packets', incoming[name])
             /\ decompress_cot_packet(incoming[name]) \in Range(forwarded')]_vars
(***************************************************************************)
(* A rejected send and the shared buffer file                              *)
(***************************************************************************)

\* C38: no step removes the sent_buffer/ file of a packet while a target
\* of the packet keeps an entry in message_retry_queue, so every entry
\* finds the buffer file of its packet when its retry is due.
C38_RejectedSendKeepsBuffer ==
    /\ [][\A key \in DOMAIN message_retry_queue' :
            key[2] \in rh_sent_buffer => key[2] \in rh_sent_buffer']_vars
    /\ [](\A key \in DOMAIN message_retry_queue : key[2] \in rh_sent_buffer)
(***************************************************************************)
(* What process_packet remembers                                           *)
(***************************************************************************)

\* The latest datagram was handed to process_packet and compressed within
\* the limit.
Processed ==
    /\ PassedOn(rx'.port, rx'.ip_type)
    /\ compress_cot_packet(rx'.data) # NoBytes

\* The step put a new file in pending/.
StagedNow == DOMAIN pending' \ DOMAIN pending # {}

\* C39 as stated: process_packet records the digest of an egress packet
\* only in a step that stages the packet to pending/.
C39_RecordedOnlyWhenStaged ==
    [][Processed /\ recent_packets' # recent_packets => StagedNow]_vars

\* C39: process_packet records the digest of every egress packet it
\* observes, staged or not: after the call the digest is in the ring, and
\* the packet is staged exactly when its digest was not in the ring and a
\* non-WIFI node exists.  A packet discarded for want of such a node is
\* remembered, and an identical packet that follows is not staged.
C39_RecordedWhenObserved ==
    [][Processed =>
          LET digest == md5(compress_cot_packet(rx'.data))
          IN  /\ digest \in Range(recent_packets')
              /\ StagedNow <=> (digest \notin Range(recent_packets)
                                /\ rx'.non_wifi_nodes # {})
              /\ StagedNow =>
                    \E name \in DOMAIN pending' \ DOMAIN pending :
                       pending'[name] = compress_cot_packet(rx'.data)]_vars

\* The tracked packet was discarded while every node was in WIFI mode; it
\* has just arrived again with a non-WIFI node present and nothing was
\* staged.
C39_Witness ==
    /\ PassedOn(rx.port, rx.ip_type)
    /\ rx.data = Tracked
    /\ rx.non_wifi_nodes # {}
    /\ md5(TrackedBytes) \in Range(recent_packets)
    /\ stamp = 0
    /\ DOMAIN pending = {}
====
